---- MODULE Spec2Model ----
(***************************************************************************)
(* State-machine model of the DESDE-CERO simulation core: GameState,       *)
(* EventBus, ModeController, CameraSystem, DirectorMode,                   *)
(* VehicleInteraction, PlayerController, Vehicle and CollisionWorld.       *)
(*                                                                         *)
(* Numbers.  JavaScript doubles are modelled in fixed point:               *)
(*   time          milliseconds                                           *)
(*   length        millimetres   (1 world unit = 1000)                     *)
(*   velocity      millimetres per second                                  *)
(*   angle         milliradians                                            *)
(*   ratios        permille (steer angle, drift factor, lerp factors)      *)
(* Products are divided with truncation toward zero (Div).                 *)
(***************************************************************************)
EXTENDS Integers, Sequences, FiniteSets, TLC

VARIABLES
  mode,           \* GameState.mode
  gsPlayer,       \* GameState.player is set (the PlayerController exists)
  gsVehicle,      \* GameState.vehicle: a vehicle id, or NoVehicle for null
  vehicles,       \* the Vehicle entities, by id
  pl,             \* PlayerController + CharacterBody container
  vi,             \* VehicleInteraction (and ModeController.vehicleInteraction)
  dir,            \* DirectorMode
  cam,            \* CameraSystem
  orbit,          \* OrbitCam follow target and main.js listener registration
  ready,          \* CollisionWorld._ready
  keys,           \* InputManager._keys
  trig,           \* live gamepad trigger values read by getTrigger
  loadStage,      \* progress of main.js loadAssets
  events,         \* notifications delivered during the last step
  probe,          \* what the last step's VehicleInteraction.update saw and left
  request,        \* the mode asked for by the last step, if it was a mode request
  frames          \* number of Engine._gameLoop iterations so far

vars == <<mode, gsPlayer, gsVehicle, vehicles, pl, vi, dir, cam, orbit, ready,
          keys, trig, loadStage, events, probe, request, frames>>

----------------------------------------------------------------------------
(* Bounds of the model *)

MaxModeFrames == 6
MaxApiFrames == 3
MaxPlayerFrames == 6
MaxDriveFrames == 3
MaxIndexFrames == 3
MaxCameraFrames == 4
MaxMotionFrames == 60
MaxJumpFrames == 8
MaxFaultFrames == 4
MotionWarmup == 2
TimerFloor == 1000

----------------------------------------------------------------------------
(* Arithmetic helpers *)

Abs(x) == IF x < 0 THEN -x ELSE x
Min(a, b) == IF a < b THEN a ELSE b
Max(a, b) == IF a > b THEN a ELSE b
Sign(x) == IF x > 0 THEN 1 ELSE IF x < 0 THEN -1 ELSE 0
clamp(x, lo, hi) == Max(lo, Min(hi, x))

\* Division truncating toward zero.
Div(a, b) == IF a >= 0 THEN a \div b ELSE -((-a) \div b)

\* a * b / 1000, splitting a so the product stays inside 32 bits.
Scale(a, b) ==
  LET q == Div(a, 1000)
      r == a - q * 1000
  IN q * b + Div(r * b, 1000)

\* A countdown timer t - delta; it only ever is compared with 0, so the
\* model stops counting at -TimerFloor.
Tick(t, delta) == Max(t - delta, -TimerFloor)

----------------------------------------------------------------------------
(* Program constants *)

GRAVITY == -9810
GROUND_Y == 0
WALK_SPEED == 3000
RUN_SPEED == 7000
SPRINT_SPEED == 12000
JUMP_FORCE == 8000
VEHICLE_ENTER_DISTANCE == 4000
VEHICLE_ACCEL_SMOOTHING == 6
VEHICLE_STEER_SMOOTHING == 5
VEHICLE_GRIP_THRESHOLD == 700
VEHICLE_BODY_TILT_MAX == 80
PLAYER_ACCEL_RATE == 50
PLAYER_DECEL_RATE == 40
PLAYER_AIR_CONTROL == 400
COYOTE_TIME == 120
JUMP_BUFFER_TIME == 100
CAPSULE_RADIUS == 350
CAPSULE_HEIGHT == 1800
PI == 3142
TWO_PI == 6284

VALID_MODES == {"free", "play", "drive", "director"}

MODE_CONFIG ==
  [ free     |-> [defaultCam  |-> "drone",
                  allowedCams |-> {"drone", "orbit", "cinematic", "path"},
                  all |-> FALSE],
    play     |-> [defaultCam  |-> "thirdperson",
                  allowedCams |-> {"thirdperson", "orbit", "drone"},
                  all |-> FALSE],
    drive    |-> [defaultCam  |-> "driving",
                  allowedCams |-> {"driving", "orbit", "drone"},
                  all |-> FALSE],
    director |-> [defaultCam  |-> "drone",
                  allowedCams |-> {},
                  all |-> TRUE] ]

\* Vehicle tuning (Vehicle constructor)
maxSpeed == 40000
braking == 30
friction == 8
steerSpeed == 2500
boostMultiplier == 1800
collisionRadius == 1500

\* The three vehicles created by loadAssets, and null.
Vehicles == 1..3
NoVehicle == 0

----------------------------------------------------------------------------
(* World geometry behind the collision octree.  The city mesh is an asset; *)
(* the model uses a raised block (a roof the character can land on and     *)
(* walk off) and a wall across the road the vehicles start on.             *)

BlockX0 == -9000
BlockX1 == -2000
BlockTop == 1000
WallZ == -60000

----------------------------------------------------------------------------
(* Trigonometry in fixed point (Math.sin / Math.cos, and the rotation of   *)
(* a local axis by mesh.quaternion).  Angles in milliradians, results in   *)
(* permille.                                                               *)

\* diff - Math.floor((diff + PI) / TWO_PI) * TWO_PI : wraps into [-PI, PI)
WrapPi(a) == ((a + PI) % TWO_PI) - PI

SinSeries(x) ==
  LET x2 == Scale(x, x)
      x3 == Scale(x, x2)
      x5 == Scale(x3, x2)
      x7 == Scale(x5, x2)
  IN x - Div(x3, 6) + Div(x5, 120) - Div(x7, 5040)

SinM(a) ==
  LET w == WrapPi(a)
  IN IF w > 1571 THEN SinSeries(PI - w)
     ELSE IF w < -1571 THEN SinSeries(-PI - w)
     ELSE SinSeries(w)

CosM(a) == SinM(a + 1571)

----------------------------------------------------------------------------
(* The program state as one record, so that a handler is a function from   *)
(* state to state and handlers compose in the order the code calls them.   *)

\* What a step called: ran for VehicleInteraction.update with what it saw
\* and left, player for PlayerController.update, drove for the vehicles
\* Vehicle.drive ran on.  Nothing was called yet.  The record's field
\* faulty names the listeners that throw as soon as they are called in the
\* step being taken; no listener of the program does so by itself.
NoProbe ==
  [ ran |-> FALSE, edge |-> FALSE, branch |-> "-", nearest |-> NoVehicle,
    modeBefore |-> "-", modeAfter |-> "-",
    visibleBefore |-> FALSE, visibleAfter |-> FALSE,
    gsVehicleBefore |-> NoVehicle, gsVehicleAfter |-> NoVehicle,
    occupiedBefore |-> {}, occupiedAfter |-> {}, emitted |-> {},
    player |-> FALSE, drove |-> {} ]

World ==
  [ mode |-> mode, gsPlayer |-> gsPlayer, gsVehicle |-> gsVehicle,
    vehicles |-> vehicles, pl |-> pl, vi |-> vi, dir |-> dir, cam |-> cam,
    orbit |-> orbit, ready |-> ready, keys |-> keys, trig |-> trig,
    log |-> <<>>, probe |-> NoProbe, faulty |-> {} ]

Commit(w) ==
  /\ mode' = w.mode
  /\ gsPlayer' = w.gsPlayer
  /\ gsVehicle' = w.gsVehicle
  /\ vehicles' = w.vehicles
  /\ pl' = w.pl
  /\ vi' = w.vi
  /\ dir' = w.dir
  /\ cam' = w.cam
  /\ orbit' = w.orbit
  /\ ready' = w.ready
  /\ keys' = w.keys
  /\ trig' = w.trig
  /\ events' = w.log
  /\ probe' = w.probe

\* InputManager.isKeyDown
isKeyDown(w, code) == code \in w.keys

\* InputManager.isButtonDown / isButtonJustPressed: Engine._gameLoop never
\* calls pollGamepad, so _gamepadButtons stays all false and the left stick
\* stays at zero.
isButtonDown(w, index) == FALSE
isButtonJustPressed(w, index) == FALSE

\* InputManager.getTrigger reads the live gamepad: 0..1000 permille.
getTrigger(w, name) == w.trig[name]

----------------------------------------------------------------------------
(* EventBus: one log entry per listener call, recording what the listener  *)
(* could observe of GameState at the moment of delivery.                   *)

PlayerTarget == -1

Delivery(w, ev, obs, m, prev, v) ==
  [ ev |-> ev, obs |-> obs, mode |-> m, previous |-> prev, veh |-> v,
    gsMode |-> w.mode, gsVehicle |-> w.gsVehicle,
    vehOccupied |-> IF v \in Vehicles THEN w.vehicles[v].occupied ELSE FALSE,
    vehSpeed |-> IF v \in Vehicles THEN w.vehicles[v].speed ELSE 0,
    occupied |-> {u \in Vehicles : w.vehicles[u].occupied},
    moving |-> {u \in Vehicles : w.vehicles[u].speed # 0} ]

Logged(w, e) == [w EXCEPT !.log = Append(@, e)]

----------------------------------------------------------------------------
(* CameraSystem *)

InSeq(x, s) == \E i \in 1..Len(s) : s[i] = x

\* Array.indexOf, zero based, -1 when absent
indexOf(s, x) ==
  IF InSeq(x, s) THEN (CHOOSE i \in 1..Len(s) : s[i] = x /\ \A j \in 1..(i-1) : s[j] # x) - 1
  ELSE -1

CameraSystem_registerMode(w, name) ==
  [w EXCEPT !.cam.modes = Append(@, name)]

CameraSystem_setAllowedModes(w, cfg) ==
  [w EXCEPT !.cam.allowed = cfg.allowedCams, !.cam.all = cfg.all]

CameraSystem_setMode(w, name) ==
  IF ~InSeq(name, w.cam.modes) THEN w
  ELSE [w EXCEPT !.cam.active = name]

CameraSystem_cycleMode(w) ==
  IF Len(w.cam.modes) = 0 THEN w
  ELSE
    LET cyclable == IF w.cam.all THEN w.cam.modes
                    ELSE SelectSeq(w.cam.modes, LAMBDA n : n \in w.cam.allowed)
    IN IF Len(cyclable) = 0 THEN w
       ELSE LET currentIdx == indexOf(cyclable, w.cam.active)
                nextIdx == (currentIdx + 1) % Len(cyclable)
            IN CameraSystem_setMode(w, cyclable[nextIdx + 1])

CameraSystem_getActiveModeName(w) == w.cam.active

----------------------------------------------------------------------------
(* VehicleInteraction.setMode and the gamestate:modeChanged listeners,     *)
(* in the order main.js registers them.                                    *)

VehicleInteraction_setMode(w, m) == [w EXCEPT !.vi.mode = m]

\* ModeController listener, first half: the camera setup of the mode
ModeController_applyConfig(w, m) ==
  IF m \in DOMAIN MODE_CONFIG
  THEN CameraSystem_setMode(CameraSystem_setAllowedModes(w, MODE_CONFIG[m]),
                            MODE_CONFIG[m].defaultCam)
  ELSE w

\* ModeController listener, second half: VehicleInteraction follows the mode
\* a notification that hands the game mode to VehicleInteraction as it is
ModeController_syncInteraction_raw(w, m) ==
  IF w.vi.wired
  THEN VehicleInteraction_setMode(w, m)
  ELSE w

ModeController_syncInteraction(w, m) ==
  IF w.vi.wired
  THEN VehicleInteraction_setMode(w, IF m = "drive" THEN "drive" ELSE "play")
  ELSE w

\* ModeController constructor: EventBus.on('gamestate:modeChanged', ...)
ModeController_onModeChanged(w, m) ==
  ModeController_syncInteraction(ModeController_applyConfig(w, m), m)

\* main.js loadAssets: OrbitCam follow target listener
Orbit_onModeChanged(w, m) ==
  IF m = "play" THEN [w EXCEPT !.orbit.target = PlayerTarget]
  ELSE IF m = "drive" /\ w.gsVehicle # NoVehicle
       THEN [w EXCEPT !.orbit.target = w.gsVehicle]
       ELSE [w EXCEPT !.orbit.target = NoVehicle]

\* one listener of gamestate:modeChanged is called
Notify(w, obs, m, prev) ==
  Logged(w, Delivery(w, "gamestate:modeChanged", obs, m, prev, NoVehicle))

\* the listener loadAssets adds, once it is registered; emit's try/catch
\* swallows what it throws
NotifyOrbit(w, m, prev) ==
  IF ~w.orbit.wired THEN w
  ELSE IF "OrbitFollow" \in w.faulty THEN Notify(w, "OrbitFollow", m, prev)
  ELSE Orbit_onModeChanged(Notify(w, "OrbitFollow", m, prev), m)

\* an emit without try/catch: the first listener that throws ends the loop
EmitModeChanged_uncaught(w, m, prev) ==
  IF "ModeController" \in w.faulty THEN Notify(w, "ModeController", m, prev)
  ELSE IF "HUD" \in w.faulty
  THEN Notify(ModeController_onModeChanged(Notify(w, "ModeController", m, prev), m),
              "HUD", m, prev)
  ELSE NotifyOrbit(
         Notify(ModeController_onModeChanged(Notify(w, "ModeController", m, prev), m),
                "HUD", m, prev),
         m, prev)

\* EventBus.emit('gamestate:modeChanged', {mode, previous}): every listener
\* of the set is called inside try/catch, in registration order
EmitModeChanged(w, m, prev) ==
  NotifyOrbit(
    Notify(IF "ModeController" \in w.faulty
           THEN Notify(w, "ModeController", m, prev)
           ELSE ModeController_onModeChanged(Notify(w, "ModeController", m, prev), m),
           "HUD", m, prev),
    m, prev)

----------------------------------------------------------------------------
(* GameState *)

\* setMode without the VALID_MODES check
GameState_setMode_unchecked(w, m) ==
  EmitModeChanged([w EXCEPT !.mode = m], m, w.mode)

\* GameState.setMode
GameState_setMode(w, m) ==
  IF m \notin VALID_MODES THEN w
  ELSE EmitModeChanged([w EXCEPT !.mode = m], m, w.mode)

\* ModeController.enterMode
ModeController_enterMode(w, m) == GameState_setMode(w, m)

----------------------------------------------------------------------------
(* CollisionWorld.  A query answers null before build(); afterwards it     *)
(* reports the contact the octree finds: the face of least penetration of  *)
(* the block, else the wall.                                               *)

NullResult == [isNull |-> TRUE, collided |-> FALSE, nx |-> 0, ny |-> 0, nz |-> 0, depth |-> 0]
NoCollision == [isNull |-> FALSE, collided |-> FALSE, nx |-> 0, ny |-> 0, nz |-> 0, depth |-> 0]
Contact(nx, ny, nz, d) ==
  [isNull |-> FALSE, collided |-> TRUE, nx |-> nx, ny |-> ny, nz |-> nz, depth |-> d]

\* Octree.capsuleIntersect / sphereIntersect for a shape whose lowest point
\* is at height bottom and whose horizontal radius is r.
Intersect(x, bottom, z, r) ==
  IF x > BlockX0 - r /\ x < BlockX1 + r /\ bottom < BlockTop
  THEN LET up    == BlockTop - bottom
           left  == x - (BlockX0 - r)
           right == (BlockX1 + r) - x
       IN IF up <= left /\ up <= right THEN Contact(0, 1000, 0, up)
          ELSE IF left <= right THEN Contact(-1000, 0, 0, left)
          ELSE Contact(1000, 0, 0, right)
  ELSE IF z - r < WallZ THEN Contact(0, 0, 1000, WallZ - (z - r))
  ELSE NoCollision

CollisionWorld_build(w) == [w EXCEPT !.ready = TRUE]

CollisionWorld_dispose(w) == [w EXCEPT !.ready = FALSE]

\* capsule.start is at pos.y + CAPSULE_RADIUS, so the capsule's lowest
\* point is pos.y
CollisionWorld_capsuleCollision(w, x, y, z) ==
  IF ~w.ready THEN NullResult ELSE Intersect(x, y, z, CAPSULE_RADIUS)

\* the sphere's centre is mesh.position + (0, radius, 0)
CollisionWorld_sphereCollision(w, x, y, z) ==
  IF ~w.ready THEN NullResult ELSE Intersect(x, y, z, collisionRadius)

----------------------------------------------------------------------------
(* PlayerController.  The record of the character holds the fields of the  *)
(* class, the locals of update() while it runs (newState, airborne, fired) *)
(* and what the last update did: pushed (the collision stage moved it),    *)
(* jumped / jumps (jumps fired), asked (jump                               *)
(* input seen), reqAge (time from the last buffered request to the end of  *)
(* the update, -1 without one), landed (how the update landed), coyoteAge  *)
(* (time from leaving the ground without a jump to the update's input      *)
(* sample, -1 when not in that case), fallAge (the same at the end of the  *)
(* update) and supported.                                                  *)

\* keyboard movement; with _cameraYaw = 0 forward is (0,0,-1), right (1,0,0)
MoveX(w) ==
  (IF isKeyDown(w, "KeyD") THEN 1 ELSE 0) - (IF isKeyDown(w, "KeyA") THEN 1 ELSE 0)
MoveZ(w) ==
  (IF isKeyDown(w, "KeyS") THEN 1 ELSE 0) - (IF isKeyDown(w, "KeyW") THEN 1 ELSE 0)
HasInput(w) == MoveX(w) # 0 \/ MoveZ(w) # 0

\* normalize(): 1/sqrt(2) = 0.707 on the diagonals
DirX(w) == MoveX(w) * (IF MoveX(w) # 0 /\ MoveZ(w) # 0 THEN 707 ELSE 1000)
DirZ(w) == MoveZ(w) * (IF MoveX(w) # 0 /\ MoveZ(w) # 0 THEN 707 ELSE 1000)

Sprinting(w) ==
  isKeyDown(w, "ShiftLeft") \/ isKeyDown(w, "ShiftRight") \/ isButtonDown(w, "GP_LB")
Walking(w) == isKeyDown(w, "ControlLeft") \/ isKeyDown(w, "ControlRight")

\* tiers that test the walk modifier before the sprint modifier
TargetSpeed_walkFirst(w) ==
  IF ~HasInput(w) THEN 0
  ELSE IF Walking(w) THEN WALK_SPEED
  ELSE IF Sprinting(w) THEN SPRINT_SPEED ELSE RUN_SPEED

TargetSpeed(w) ==
  IF ~HasInput(w) THEN 0
  ELSE IF Sprinting(w) THEN SPRINT_SPEED
  ELSE IF Walking(w) THEN WALK_SPEED ELSE RUN_SPEED

ProvisionalState(w) ==
  IF ~HasInput(w) THEN "idle"
  ELSE IF Sprinting(w) THEN "sprint"
  ELSE IF Walking(w) THEN "walk" ELSE "run"

JumpPressed(w) == isKeyDown(w, "Space") \/ isButtonJustPressed(w, "GP_A")

\* The character rests on something: the ground plane, or the top face of
\* the block under its capsule.
Supported(p) ==
  \/ p.y <= GROUND_Y
  \/ p.y = BlockTop /\ p.x > BlockX0 - CAPSULE_RADIUS /\ p.x < BlockX1 + CAPSULE_RADIUS

\* update, lines 144-187: input and provisional state
PlayerController_gatherInput(p, w, delta) ==
  [p EXCEPT !.newState = ProvisionalState(w),
            !.jumps = 0,
            !.fired = FALSE,
            !.pushed = FALSE,
            !.asked = JumpPressed(w),
            !.coyoteAge = IF p.fallAge < 0 THEN -1
                          ELSE Min(p.fallAge + delta, TimerFloor)]

\* update, lines 189-194: coyote timer
PlayerController_coyoteTimer(p, delta) ==
  [p EXCEPT !.coyote = IF p.grounded THEN COYOTE_TIME ELSE Tick(@, delta)]

\* a jump buffer whose timer is never counted down
PlayerController_jumpBuffer_sticky(p, jumpPressed, delta) ==
  IF jumpPressed /\ p.coyote <= 0
  THEN [p EXCEPT !.jumpBuf = JUMP_BUFFER_TIME, !.reqAge = 0]
  ELSE [p EXCEPT !.reqAge = IF @ < 0 \/ p.landed # "none" THEN -1
                            ELSE Min(@ + delta, TimerFloor)]

\* update, lines 200-206: jump buffer
PlayerController_jumpBuffer(p, jumpPressed, delta) ==
  IF jumpPressed /\ p.coyote <= 0
  THEN [p EXCEPT !.jumpBuf = JUMP_BUFFER_TIME, !.reqAge = 0]
  ELSE [p EXCEPT !.jumpBuf = Tick(@, delta),
                 !.reqAge = IF @ < 0 \/ p.landed # "none" THEN -1
                            ELSE Min(@ + delta, TimerFloor)]

\* a jump that leaves the coyote timer running
PlayerController_executeJump_coyote(p, jumpPressed) ==
  IF (jumpPressed \/ p.jumpBuf > 0) /\ p.coyote > 0
  THEN [p EXCEPT !.vy = JUMP_FORCE, !.grounded = FALSE,
                 !.jumpBuf = 0, !.newState = "jump", !.jumps = 1,
                 !.airborne = TRUE]
  ELSE [p EXCEPT !.airborne = ~p.grounded]

\* update, lines 208-218: execute jump
PlayerController_executeJump(p, jumpPressed) ==
  IF (jumpPressed \/ p.jumpBuf > 0) /\ p.coyote > 0
  THEN [p EXCEPT !.vy = JUMP_FORCE, !.grounded = FALSE, !.coyote = 0,
                 !.jumpBuf = 0, !.newState = "jump", !.jumps = 1,
                 !.airborne = TRUE]
  ELSE [p EXCEPT !.airborne = ~p.grounded]

\* gravity that pulls on a grounded character as well
PlayerController_gravity_always(p, delta) ==
  [p EXCEPT !.vy = @ + Scale(GRAVITY, delta),
            !.newState = IF p.vy + Scale(GRAVITY, delta) < 0 THEN "falling" ELSE @]

\* update, lines 220-225: gravity
PlayerController_gravity(p, delta) ==
  IF p.grounded THEN p
  ELSE [p EXCEPT !.vy = @ + Scale(GRAVITY, delta),
                 !.newState = IF p.vy + Scale(GRAVITY, delta) < 0 THEN "falling" ELSE @]

\* the lerp factor without Math.min(1, ...)
LerpFactor_uncapped(p, hasInput, delta) ==
  LET accelRate == IF hasInput THEN PLAYER_ACCEL_RATE ELSE PLAYER_DECEL_RATE
  IN IF ~p.grounded THEN Scale(accelRate * delta, PLAYER_AIR_CONTROL)
     ELSE accelRate * delta

\* update, lines 234-241: lerp factor with air control
LerpFactor(p, hasInput, delta) ==
  LET accelRate == IF hasInput THEN PLAYER_ACCEL_RATE ELSE PLAYER_DECEL_RATE
  IN Min(1000, IF ~p.grounded THEN Scale(accelRate * delta, PLAYER_AIR_CONTROL)
               ELSE accelRate * delta)

\* acceleration that adds the scaled target instead of closing the gap
PlayerController_accelerate_additive(p, w, delta) ==
  [p EXCEPT !.vx = @ + Scale(Scale(DirX(w), TargetSpeed(w)),
                             LerpFactor(p, HasInput(w), delta)),
            !.vz = @ + Scale(Scale(DirZ(w), TargetSpeed(w)),
                             LerpFactor(p, HasInput(w), delta))]

\* update, lines 227-244: acceleration curves
PlayerController_accelerate(p, w, delta) ==
  [p EXCEPT !.vx = @ + Scale(Scale(DirX(w), TargetSpeed(w)) - @,
                             LerpFactor(p, HasInput(w), delta)),
            !.vz = @ + Scale(Scale(DirZ(w), TargetSpeed(w)) - @,
                             LerpFactor(p, HasInput(w), delta))]

\* update, lines 246-250: integrate position
PlayerController_integrate(p, delta) ==
  [p EXCEPT !.x = @ + Scale(p.vx, delta),
            !.y = @ + Scale(p.vy, delta),
            !.z = @ + Scale(p.vz, delta)]

\* a push-out that also stops the motion into the surface
PlayerController_pushOut_stopping(p, result) ==
  IF result.isNull \/ ~result.collided THEN p
  ELSE [p EXCEPT
          !.x = @ + Scale(result.nx, result.depth),
          !.y = @ + Scale(result.ny, result.depth),
          !.z = @ + Scale(result.nz, result.depth),
          !.grounded = IF result.ny > 500 THEN TRUE ELSE @,
          !.vx = IF result.nx # 0 THEN 0 ELSE @,
          !.vy = IF result.ny > 500 THEN Max(0, @) ELSE @,
          !.vz = IF result.nz # 0 THEN 0 ELSE @,
          !.pushed = TRUE]

\* _resolveCapsuleCollision, lines 324-340: push out and ground detection
PlayerController_pushOut(p, result) ==
  IF result.isNull \/ ~result.collided THEN p
  ELSE [p EXCEPT
          !.x = @ + Scale(result.nx, result.depth),
          !.y = @ + Scale(result.ny, result.depth),
          !.z = @ + Scale(result.nz, result.depth),
          !.grounded = IF result.ny > 500 THEN TRUE ELSE @,
          !.vy = IF result.ny > 500 THEN Max(0, @) ELSE @,
          !.pushed = TRUE]

\* _resolveCapsuleCollision that queries the octree without looking at ready
PlayerController_resolveCapsuleCollision_unguarded(w, p) ==
  PlayerController_pushOut(p, Intersect(p.x, p.y, p.z, CAPSULE_RADIUS))

\* _resolveCapsuleCollision, lines 314-322: the guards
PlayerController_resolveCapsuleCollision(w, p) ==
  IF ~w.ready THEN p
  ELSE PlayerController_pushOut(p, CollisionWorld_capsuleCollision(w, p.x, p.y, p.z))

\* how this update came down, if it did
PlayerController_markLanding(p) ==
  [p EXCEPT !.landed = IF p.airborne /\ p.grounded THEN "capsule"
                       ELSE IF p.airborne /\ p.y <= GROUND_Y THEN "plane"
                       ELSE "none"]

\* a fallback that stops the fall but leaves the position where it is
PlayerController_groundFallback_unclamped(p, hasInput) ==
  IF p.y > GROUND_Y THEN p
  ELSE IF p.jumpBuf > 0
  THEN [p EXCEPT !.vy = JUMP_FORCE, !.grounded = FALSE,
                 !.jumpBuf = 0, !.newState = "jump", !.jumps = @ + 1,
                 !.fired = TRUE]
  ELSE [p EXCEPT !.vy = 0, !.grounded = TRUE,
                 !.newState = IF @ \in {"falling", "jump"}
                              THEN (IF hasInput THEN "run" ELSE "idle") ELSE @]

\* Ground-plane fallback and buffered-jump auto-fire (update, lines 255-273)
PlayerController_groundFallback(p, hasInput) ==
  IF p.y > GROUND_Y THEN p
  ELSE IF p.jumpBuf > 0
  THEN [p EXCEPT !.y = GROUND_Y, !.vy = JUMP_FORCE, !.grounded = FALSE,
                 !.jumpBuf = 0, !.newState = "jump", !.jumps = @ + 1,
                 !.fired = TRUE]
  ELSE [p EXCEPT !.y = GROUND_Y, !.vy = 0, !.grounded = TRUE,
                 !.newState = IF @ \in {"falling", "jump"}
                              THEN (IF hasInput THEN "run" ELSE "idle") ELSE @]

\* atan2(moveDir.x, moveDir.z) for the eight key directions
Atan2Dir(dx, dz) ==
  IF dx = 0 THEN (IF dz > 0 THEN 0 ELSE PI)
  ELSE IF dz = 0 THEN (IF dx > 0 THEN 1571 ELSE -1571)
  ELSE IF dx > 0 THEN (IF dz > 0 THEN 785 ELSE 2356)
  ELSE (IF dz > 0 THEN -785 ELSE -2356)

\* a rotation step that does not look at the grounded flag
PlayerController_rotate_airborne(p, w, delta) ==
  IF HasInput(w)
  THEN [p EXCEPT !.rotY = @ + Scale(WrapPi(Atan2Dir(DirX(w), DirZ(w)) - @),
                                    Min(1000, 10 * delta))]
  ELSE p

\* Rotate the character toward the movement direction (update, lines 275-286)
PlayerController_rotate(p, w, delta) ==
  IF HasInput(w) /\ p.grounded
  THEN [p EXCEPT !.rotY = @ + Scale(WrapPi(Atan2Dir(DirX(w), DirZ(w)) - @),
                                    Min(1000, 10 * delta))]
  ELSE p

\* update, lines 288-292: the state is taken over; the locals end
PlayerController_commitState(p) ==
  [p EXCEPT !.state = p.newState,
            !.jumped = p.jumps > 0,
            !.supported = ~p.fired /\ Supported(p),
            !.fallAge = IF (~p.fired /\ Supported(p)) \/ p.jumps > 0 THEN -1
                        ELSE IF p.supported THEN 0
                        ELSE p.coyoteAge,
            !.newState = "-", !.fired = FALSE, !.airborne = FALSE]

\* the body of update() on the character record, in code order
PlayerController_steps(p, w, delta) ==
  PlayerController_commitState(
   PlayerController_rotate(
    PlayerController_groundFallback(
     PlayerController_markLanding(
      PlayerController_resolveCapsuleCollision(w,
       PlayerController_integrate(
        PlayerController_accelerate(
         PlayerController_gravity(
          PlayerController_executeJump(
           PlayerController_jumpBuffer(
            PlayerController_coyoteTimer(
             PlayerController_gatherInput(p, w, delta), delta),
            JumpPressed(w), delta),
           JumpPressed(w)),
          delta),
         w, delta),
        delta))),
     HasInput(w)),
    w, delta))

\* an update that notifies its state whether it changed or not
PlayerController_emitState_always(w, old) ==
  [Logged(w, Delivery(w, "player:stateChanged", "HUD", w.pl.state, old, NoVehicle))
     EXCEPT !.pl.notified = w.pl.state]

\* EventBus.emit('player:stateChanged') when the state changed from old;
\* notified keeps the payload of the last notification
PlayerController_emitState(w, old) ==
  IF w.pl.state # old
  THEN [Logged(w, Delivery(w, "player:stateChanged", "HUD", w.pl.state, old, NoVehicle))
          EXCEPT !.pl.notified = w.pl.state]
  ELSE w

PlayerController_update(w, delta) ==
  PlayerController_emitState(
    [w EXCEPT !.pl = PlayerController_steps(w.pl, w, delta),
              !.probe.player = TRUE],
    w.pl.state)

----------------------------------------------------------------------------
(* Vehicle.  Besides the fields of the class the record keeps drifting     *)
(* (the drift condition of the running drive call), hit (the collision     *)
(* stage of its last drive() acted), bumped (the same for any drive() so   *)
(* far), driven (drive() has                                               *)
(* run on it) and boosted (boost was held in its last drive()).            *)

Pow2(k) == IF k >= 30 THEN 1073741824 ELSE 2 ^ k

\* x * Math.pow(0.5, h / 1000): exact on whole halvings, and the chord of
\* the curve inside one halving.
HalfLife(x, h) ==
  LET whole == Div(x, Pow2(h \div 1000))
  IN whole - Div(Scale(whole, h % 1000), 2)

Vehicle_gatherInput(w, v) ==
  LET accelKey == IF isKeyDown(w, "KeyS") THEN -1000
                  ELSE IF isKeyDown(w, "KeyW") THEN 1000 ELSE 0
      steerKey == IF isKeyDown(w, "KeyD") THEN -1000
                  ELSE IF isKeyDown(w, "KeyA") THEN 1000 ELSE 0
      spaceDown == isKeyDown(w, "Space")
      gpRT == getTrigger(w, "GP_RT")
      gpLT == getTrigger(w, "GP_LT")
      gpB == isButtonDown(w, "GP_B")
  IN [ accelInput |-> IF gpLT > 0 /\ Abs(v.speed) < 500 THEN -gpLT
                      ELSE IF gpRT > 0 THEN gpRT ELSE accelKey,
       brakeInput |-> IF gpB THEN 1000
                      ELSE IF gpLT > 0 THEN gpLT
                      ELSE IF spaceDown THEN 1000 ELSE 0,
       steerInput |-> steerKey,
       isBraking  |-> spaceDown \/ gpB,
       boosting   |-> isKeyDown(w, "ShiftLeft") \/ isKeyDown(w, "ShiftRight")
                        \/ isButtonDown(w, "GP_LB") ]

\* Effective top speed
Vehicle_maxSpd(in) ==
  IF in.boosting THEN Scale(maxSpeed, boostMultiplier) ELSE maxSpeed

\* Snap to zero when very slow
Snap(speed) == IF Abs(speed) < 50 THEN 0 ELSE speed

\* _applyAcceleration, lines 368-385: throttle, or friction without it
Vehicle_throttle(speed, accelInput, maxSpd, delta) ==
  IF accelInput # 0
  THEN speed + Scale((IF accelInput > 0
                      THEN Scale(accelInput, maxSpd)
                      ELSE Scale(Scale(accelInput, maxSpd), 300)) - speed,
                     Min(1000, VEHICLE_ACCEL_SMOOTHING * delta))
  ELSE Snap(HalfLife(speed, friction * delta))

\* _applyAcceleration, lines 387-396: braking
Vehicle_brake(speed, brakeInput, isBraking, delta) ==
  IF isBraking /\ Abs(speed) > 50
  THEN Snap(speed + Scale(0 - speed, Min(1000, Scale(braking * delta, brakeInput))))
  ELSE speed

\* _applyAcceleration without its final clamp
ClampSpeed_missing(speed, maxSpd) == speed

\* Final clamp: reverse limited to 30 % of forward top speed
ClampSpeed(speed, maxSpd) == clamp(speed, -Scale(maxSpd, 300), maxSpd)

Vehicle_applyAcceleration(speed, accelInput, brakeInput, isBraking, maxSpd, delta) ==
  ClampSpeed(
    Vehicle_brake(Vehicle_throttle(speed, accelInput, maxSpd, delta),
                  brakeInput, isBraking, delta),
    maxSpd)

\* _applySteering, lines 415-420: smoothed steer input
Vehicle_smoothSteer(v, steerInput, delta) ==
  [v EXCEPT !.steerAngle = @ + Scale(steerInput - @,
                                     Min(1000, VEHICLE_STEER_SMOOTHING * delta)),
            !.steering = v.steerAngle + Scale(steerInput - v.steerAngle,
                                     Min(1000, VEHICLE_STEER_SMOOTHING * delta))]

\* yaw without the test for a moving vehicle
Vehicle_turn_always(v, delta) ==
  [v EXCEPT !.rotY = @ +
     Scale(Scale(Scale(Scale(v.steerAngle, steerSpeed),
                       Min(1000, Abs(v.speed) \div 10)),
                 1000 - Scale(v.drift, 400)),
           delta) * Sign(v.speed)]

\* _applySteering, lines 422-432: yaw while moving
Vehicle_turn(v, delta) ==
  IF Abs(v.speed) > 500
  THEN [v EXCEPT !.rotY = @ +
          Scale(Scale(Scale(Scale(v.steerAngle, steerSpeed),
                            Min(1000, Abs(v.speed) \div 10)),
                      1000 - Scale(v.drift, 400)),
                delta) * Sign(v.speed)]
  ELSE v

Vehicle_applySteering(v, steerInput, delta) ==
  Vehicle_turn(Vehicle_smoothSteer(v, steerInput, delta), delta)

Vehicle_shouldDrift(v) ==
  LET speedRatio == Abs(v.speed) \div (maxSpeed \div 1000)
  IN Scale(speedRatio, Abs(v.steerAngle)) > VEHICLE_GRIP_THRESHOLD /\ speedRatio > 400

\* Recover grip, with the snap to zero
Vehicle_grip(d) == IF d < 10 THEN 0 ELSE d

\* a drift step that keeps notifying while the drift factor recovers
Vehicle_applyDrift_lingering(v, delta) ==
  IF Vehicle_shouldDrift(v)
  THEN [v EXCEPT !.drift = @ + Scale(1000 - @, Min(1000, 4 * delta)),
                 !.drifting = TRUE]
  ELSE [v EXCEPT !.drift = Vehicle_grip(@ + Scale(0 - @, Min(1000, 3 * delta))),
                 !.drifting = v.drift > 0]

Vehicle_applyDrift(v, delta) ==
  IF Vehicle_shouldDrift(v)
  THEN [v EXCEPT !.drift = @ + Scale(1000 - @, Min(1000, 4 * delta)),
                 !.drifting = TRUE]
  ELSE [v EXCEPT !.drift = Vehicle_grip(@ + Scale(0 - @, Min(1000, 3 * delta))),
                 !.drifting = FALSE]

Vehicle_applyBodyTilt(v, delta) ==
  LET speedRatio == clamp(Abs(v.speed) \div (maxSpeed \div 1000), 0, 1000)
  IN [v EXCEPT !.rotZ = @ + Scale(-Scale(Scale(v.steerAngle, speedRatio),
                                         VEHICLE_BODY_TILT_MAX) - @,
                                  Min(1000, 5 * delta))]

\* _applySuspension, lines 510-515: impulses from speed and steering changes
Vehicle_suspensionImpulse(v) ==
  [v EXCEPT !.suspVel = @ + Div(-(v.speed - v.prevSpeed) * 2, 100)
                          + Div(Abs(v.steerAngle - v.prevSteer), 100)]

\* _applySuspension, lines 517-520: spring and damper
Vehicle_suspensionSpring(v, delta) ==
  [v EXCEPT !.suspVel = @ + Scale(-80 * v.suspY - 8 * @, delta)]

\* _applySuspension, lines 521-524: integrate and clamp
Vehicle_suspensionMove(v, delta) ==
  [v EXCEPT !.suspY = clamp(@ + Scale(v.suspVel, delta), -150, 150)]

Vehicle_applySuspension(v, delta) ==
  Vehicle_suspensionMove(
    Vehicle_suspensionSpring(Vehicle_suspensionImpulse(v), delta), delta)

\* _forward.set(0, 0, -1).applyQuaternion(mesh.quaternion), Euler order XYZ
\* with rotation.x = 0: the roll about Z leaves the Z axis in place.
ForwardX(v) == -SinM(v.rotY)
ForwardZ(v) == -CosM(v.rotY)

\* drive, lines 270-272: translation along the local forward axis
Vehicle_translate(v, delta) ==
  [v EXCEPT !.x = @ + Scale(ForwardX(v), Scale(v.speed, delta)),
            !.z = @ + Scale(ForwardZ(v), Scale(v.speed, delta))]

\* _applyCollision, lines 545-560: lose speed on a head-on hit, push out
Vehicle_pushOut(v, result) ==
  IF result.isNull \/ ~result.collided THEN v
  ELSE [v EXCEPT
          !.speed = IF Scale(ForwardX(v), result.nx) + Scale(ForwardZ(v), result.nz) < -300
                    THEN Scale(@, 300) ELSE @,
          !.x = @ + Scale(result.nx, result.depth),
          !.y = @ + Scale(result.ny, result.depth),
          !.z = @ + Scale(result.nz, result.depth),
          !.hit = TRUE,
          !.bumped = TRUE]

Vehicle_applyCollision(w, v) ==
  IF ~w.ready THEN v
  ELSE Vehicle_pushOut(v, CollisionWorld_sphereCollision(w, v.x, v.y, v.z))

\* drive, lines 277-290: ground clamp, suspension offset, bookkeeping
Vehicle_settle(v, in) ==
  [v EXCEPT !.y = Max(0, @) + v.suspY,
            !.prevSpeed = v.speed,
            !.prevSteer = v.steerAngle,
            !.boosted = in.boosting,
            !.driven = TRUE]

\* the body of drive() on the vehicle record, in code order
Vehicle_steps(w, v, in, delta) ==
  Vehicle_settle(
   Vehicle_applyCollision(w,
    Vehicle_translate(
     Vehicle_applySuspension(
      Vehicle_applyBodyTilt(
       Vehicle_applyDrift(
        Vehicle_applySteering(
         [v EXCEPT !.speed = Vehicle_applyAcceleration(
             @, in.accelInput, in.brakeInput, in.isBraking, Vehicle_maxSpd(in), delta),
                   !.hit = FALSE],
         in.steerInput, delta),
        delta),
       delta),
      delta),
     delta)),
   in)

\* EventBus.emit('vehicle:drifting'), which has no listener
Vehicle_emitDrifting(w, id) ==
  IF w.vehicles[id].drifting
  THEN Logged([w EXCEPT !.vehicles[id].drifting = FALSE],
              Delivery([w EXCEPT !.vehicles[id].drifting = FALSE],
                       "vehicle:drifting", "-", "-", "-", id))
  ELSE w

\* Vehicle.drive(input, delta) on vehicle id
Vehicle_drive(w, id, delta) ==
  Vehicle_emitDrifting(
    [w EXCEPT !.vehicles[id] =
                 Vehicle_steps(w, @, Vehicle_gatherInput(w, @), delta),
              !.probe.drove = @ \cup {id}],
    id)

----------------------------------------------------------------------------
(* VehicleInteraction *)

Occupied(w) == {v \in Vehicles : w.vehicles[v].occupied}

\* playerPos.distanceTo(v.position) < VEHICLE_ENTER_DISTANCE, compared on
\* squares; a coordinate further than the radius decides without squaring.
Far(w, v) ==
  \/ Abs(w.pl.x - w.vehicles[v].x) >= VEHICLE_ENTER_DISTANCE
  \/ Abs(w.pl.y - w.vehicles[v].y) >= VEHICLE_ENTER_DISTANCE
  \/ Abs(w.pl.z - w.vehicles[v].z) >= VEHICLE_ENTER_DISTANCE

Dist2(w, v) ==
  (w.pl.x - w.vehicles[v].x) * (w.pl.x - w.vehicles[v].x)
    + (w.pl.y - w.vehicles[v].y) * (w.pl.y - w.vehicles[v].y)
    + (w.pl.z - w.vehicles[v].z) * (w.pl.z - w.vehicles[v].z)

InRange(w, v) ==
  ~Far(w, v) /\ Dist2(w, v) < VEHICLE_ENTER_DISTANCE * VEHICLE_ENTER_DISTANCE

\* the proximity loop of update: the closest vehicle in range, the first
\* of the array among equally close ones
NearestVehicle(w) ==
  IF \A v \in Vehicles : ~InRange(w, v) THEN NoVehicle
  ELSE CHOOSE v \in Vehicles :
         /\ InRange(w, v)
         /\ \A u \in Vehicles :
              InRange(w, u) =>
                \/ Dist2(w, v) < Dist2(w, u)
                \/ (Dist2(w, v) = Dist2(w, u) /\ v <= u)

\* _enterVehicle, lines 143-145
\* a seat that does not publish the vehicle in GameState
VehicleInteraction_seat_unpublished(w, v) ==
  [w EXCEPT !.vehicles[v].occupied = TRUE,
            !.vehicles[v].driver = "player"]

VehicleInteraction_seat(w, v) ==
  [w EXCEPT !.vehicles[v].occupied = TRUE,
            !.vehicles[v].driver = "player",
            !.gsVehicle = v]

\* _enterVehicle, line 149: hide the player model
VehicleInteraction_hideBody(w) == [w EXCEPT !.pl.visible = FALSE]

\* EventBus.emit('vehicle:entered'): the OrbitCam listener of main.js
VehicleInteraction_emitEntered(w, v) ==
  [Logged(w, Delivery(w, "vehicle:entered", "OrbitFollow", "-", "-", v))
     EXCEPT !.orbit.target = IF "OrbitFollow" \in w.faulty THEN @ ELSE v]

\* _enterVehicle that leaves the character's body visible
VehicleInteraction_enterVehicle_bodyShown(w, v) ==
  VehicleInteraction_emitEntered(
    GameState_setMode(VehicleInteraction_seat(w, v), "drive"), v)

\* VehicleInteraction._enterVehicle
VehicleInteraction_enterVehicle(w, v) ==
  VehicleInteraction_emitEntered(
    VehicleInteraction_hideBody(
      GameState_setMode(VehicleInteraction_seat(w, v), "drive")),
    v)

\* _exitOffset.set(3, 0, 0).applyQuaternion(mesh.quaternion), Euler XYZ
ExitOffsetX(v) == Scale(Scale(CosM(v.rotZ), CosM(v.rotY)), 3000)
ExitOffsetZ(v) == -Scale(Scale(CosM(v.rotZ), SinM(v.rotY)), 3000)

\* _exitVehicle that leaves the vehicle rolling
VehicleInteraction_unseat_rolling(w, id) ==
  [w EXCEPT !.vehicles[id].occupied = FALSE,
            !.vehicles[id].driver = "none",
            !.pl.x = w.vehicles[id].x + ExitOffsetX(w.vehicles[id]),
            !.pl.y = 0,
            !.pl.z = w.vehicles[id].z + ExitOffsetZ(w.vehicles[id]),
            !.pl.visible = TRUE,
            !.gsVehicle = NoVehicle]

\* _exitVehicle, lines 162-176
VehicleInteraction_unseat(w, id) ==
  [w EXCEPT !.vehicles[id].occupied = FALSE,
            !.vehicles[id].driver = "none",
            !.vehicles[id].speed = 0,
            !.pl.x = w.vehicles[id].x + ExitOffsetX(w.vehicles[id]),
            !.pl.y = 0,
            !.pl.z = w.vehicles[id].z + ExitOffsetZ(w.vehicles[id]),
            !.pl.visible = TRUE,
            !.gsVehicle = NoVehicle]

\* EventBus.emit('vehicle:exited'): the OrbitCam listener of main.js
VehicleInteraction_emitExited(w, id) ==
  [Logged(w, Delivery(w, "vehicle:exited", "OrbitFollow", "-", "-", id))
     EXCEPT !.orbit.target = IF "OrbitFollow" \in w.faulty THEN @ ELSE PlayerTarget]

\* _exitVehicle that returns to play mode before it looks for the vehicle
VehicleInteraction_exitVehicle_unguarded(w) ==
  IF w.gsVehicle = NoVehicle THEN GameState_setMode(w, "play")
  ELSE VehicleInteraction_emitExited(
         GameState_setMode(VehicleInteraction_unseat(w, w.gsVehicle), "play"),
         w.gsVehicle)

\* VehicleInteraction._exitVehicle
VehicleInteraction_exitVehicle(w) ==
  IF w.gsVehicle = NoVehicle THEN w
  ELSE VehicleInteraction_emitExited(
         GameState_setMode(VehicleInteraction_unseat(w, w.gsVehicle), "play"),
         w.gsVehicle)

\* an interact test on the key's level instead of its edge
VehicleInteraction_pressEdge_level(w) ==
  isKeyDown(w, "KeyF") \/ isButtonJustPressed(w, "GP_Y")

\* update, lines 98-99: the interact press edge
VehicleInteraction_pressEdge(w) ==
  (isKeyDown(w, "KeyF") /\ ~w.vi.fPressed) \/ isButtonJustPressed(w, "GP_Y")

\* update, lines 103-116: proximity check and prompt
VehicleInteraction_proximity(w) ==
  [w EXCEPT !.vi.nearest = NearestVehicle(w),
            !.vi.prompt = NearestVehicle(w) # NoVehicle]

\* update, lines 118-120
VehicleInteraction_enterIfPressed(w, edge) ==
  IF edge /\ w.vi.nearest # NoVehicle
  THEN VehicleInteraction_enterVehicle(w, w.vi.nearest)
  ELSE w

\* update, lines 122-126
VehicleInteraction_driveSeated(w, delta) ==
  IF w.gsVehicle # NoVehicle
  THEN Vehicle_drive([w EXCEPT !.vi.prompt = FALSE], w.gsVehicle, delta)
  ELSE [w EXCEPT !.vi.prompt = FALSE]

\* update, lines 128-130
VehicleInteraction_exitIfPressed(w, edge) ==
  IF edge THEN VehicleInteraction_exitVehicle(w) ELSE w

\* update, lines 102-133: the branch of the operating mode
VehicleInteraction_branch(w, edge, delta) ==
  IF w.vi.mode = "play"
  THEN VehicleInteraction_enterIfPressed(VehicleInteraction_proximity(w), edge)
  ELSE IF w.vi.mode = "drive"
  THEN VehicleInteraction_exitIfPressed(VehicleInteraction_driveSeated(w, delta), edge)
  ELSE [w EXCEPT !.vi.prompt = FALSE]

\* what the update saw (before) and left (after)
VehicleInteraction_observe(after, before) ==
  [after EXCEPT !.probe =
     [ ran |-> TRUE,
       edge |-> VehicleInteraction_pressEdge(before),
       branch |-> before.vi.mode,
       nearest |-> IF before.vi.mode = "play" THEN NearestVehicle(before)
                   ELSE NoVehicle,
       modeBefore |-> before.mode, modeAfter |-> after.mode,
       visibleBefore |-> before.pl.visible, visibleAfter |-> after.pl.visible,
       gsVehicleBefore |-> before.gsVehicle, gsVehicleAfter |-> after.gsVehicle,
       occupiedBefore |-> Occupied(before), occupiedAfter |-> Occupied(after),
       emitted |-> {after.log[i].ev : i \in (Len(before.log) + 1)..Len(after.log)},
       player |-> after.probe.player, drove |-> after.probe.drove ]]

\* VehicleInteraction.update
VehicleInteraction_update(w, delta) ==
  VehicleInteraction_observe(
    VehicleInteraction_branch(
      [w EXCEPT !.vi.fPressed = isKeyDown(w, "KeyF")],
      VehicleInteraction_pressEdge(w), delta),
    w)

----------------------------------------------------------------------------
(* DirectorMode *)

DirectorMode_activate(w) ==
  CameraSystem_setMode(
    GameState_setMode(
      [w EXCEPT !.dir.active = TRUE,
                !.dir.previousMode = w.mode,
                !.dir.previousCameraMode =
                   IF CameraSystem_getActiveModeName(w) = "none" THEN "drone"
                   ELSE CameraSystem_getActiveModeName(w)],
      "director"),
    "drone")

\* deactivate that always falls back to the free camera
DirectorMode_deactivate_free(w) ==
  GameState_setMode([w EXCEPT !.dir.active = FALSE], "free")

DirectorMode_deactivate(w) ==
  GameState_setMode([w EXCEPT !.dir.active = FALSE],
                    IF w.dir.previousMode = "director" THEN "free"
                    ELSE w.dir.previousMode)

DirectorMode_toggle(w) ==
  IF w.dir.active THEN DirectorMode_deactivate(w) ELSE DirectorMode_activate(w)

CinematicKeys == {"Digit1", "Digit2", "Digit3", "Digit4", "Digit5", "Digit6"}

\* update, lines 474-478: Tab toggle, edge detected
DirectorMode_tab(w) ==
  [(IF isKeyDown(w, "Tab") /\ ~w.dir.tabPressed THEN DirectorMode_toggle(w) ELSE w)
     EXCEPT !.dir.tabPressed = isKeyDown(w, "Tab")]

\* update, lines 483-491: digit keys select the cinematic camera
DirectorMode_cinematic(w) ==
  IF w.keys \cap CinematicKeys # {} THEN CameraSystem_setMode(w, "cinematic") ELSE w

\* update, lines 493-498: P selects the path camera, edge detected
DirectorMode_path(w) ==
  [(IF isKeyDown(w, "KeyP") /\ ~w.dir.pPressed
    THEN CameraSystem_setMode(w, "path") ELSE w)
     EXCEPT !.dir.pPressed = isKeyDown(w, "KeyP")]

\* update, lines 481-498: only while active
DirectorMode_keys(w) ==
  IF ~w.dir.active THEN w ELSE DirectorMode_path(DirectorMode_cinematic(w))

DirectorMode_update(w, delta) == DirectorMode_keys(DirectorMode_tab(w))

----------------------------------------------------------------------------
(* ModeController.update: the systems of the mode the frame starts in *)

\* a switch whose 'drive' case updates the player controller as well
ModeController_runPlayer_driving(w, started, delta) ==
  IF started \in {"play", "drive"} /\ w.gsPlayer
  THEN PlayerController_update(w, delta) ELSE w

ModeController_runPlayer(w, started, delta) ==
  IF started = "play" /\ w.gsPlayer THEN PlayerController_update(w, delta) ELSE w

ModeController_runInteraction(w, started, delta) ==
  IF started \in {"play", "drive"} /\ w.vi.wired
  THEN VehicleInteraction_update(w, delta)
  ELSE w

ModeController_update(w, delta) ==
  DirectorMode_update(
    ModeController_runInteraction(
      ModeController_runPlayer(w, w.mode, delta), w.mode, delta),
    delta)

----------------------------------------------------------------------------
(* main.js *)

\* keydown listener: P toggles between free camera and play mode
Main_onKeyP(w) ==
  IF w.mode # "director"
  THEN IF w.mode = "free"
       THEN (IF w.gsPlayer THEN GameState_setMode(w, "play") ELSE w)
       ELSE IF w.mode = "play" THEN GameState_setMode(w, "free") ELSE w
  ELSE w

\* window keydown listeners in registration order: InputManager records
\* the key, CameraSystem cycles the camera on C, main.js toggles on P
Window_keydown(w, code) ==
  IF code = "KeyC" THEN CameraSystem_cycleMode([w EXCEPT !.keys = @ \cup {code}])
  ELSE IF code = "KeyP" THEN Main_onKeyP([w EXCEPT !.keys = @ \cup {code}])
  ELSE [w EXCEPT !.keys = @ \cup {code}]

Window_keyup(w, code) == [w EXCEPT !.keys = @ \ {code}]

\* loadAssets, from the creation of the PlayerController to its last line:
\* no await in between, so it is one step.
Main_finishLoad(w) ==
  GameState_setMode(
    [CameraSystem_registerMode([w EXCEPT !.gsPlayer = TRUE], "thirdperson")
       EXCEPT !.vi.wired = TRUE, !.orbit.wired = TRUE],
    "free")

----------------------------------------------------------------------------
(* The state after construction: main.js up to engine.start()             *)

\* new PlayerController(body, input) with body.container at (0, 0, 15).
InitPlayer ==
  [ x |-> 0, y |-> 0, z |-> 15000, vx |-> 0, vy |-> 0, vz |-> 0,
    grounded |-> TRUE, coyote |-> COYOTE_TIME, jumpBuf |-> 0,
    state |-> "idle", rotY |-> 0, visible |-> TRUE,
    jumped |-> FALSE, jumps |-> 0, asked |-> FALSE, reqAge |-> -1,
    landed |-> "none", coyoteAge |-> -1, fallAge |-> -1, supported |-> TRUE,
    newState |-> "-", airborne |-> FALSE, fired |-> FALSE, pushed |-> FALSE,
    notified |-> "-" ]

\* new Vehicle(...) placed at (10, 0, 10), (20, 0, 10), (30, 0, 10).
InitVehicle(id) ==
  [ occupied |-> FALSE, driver |-> "none", speed |-> 0,
    x |-> 10000 * id, y |-> 0, z |-> 10000, rotY |-> 0, rotZ |-> 0,
    steerAngle |-> 0, steering |-> 0, drift |-> 0,
    prevSpeed |-> 0, prevSteer |-> 0, suspY |-> 0, suspVel |-> 0,
    boosted |-> FALSE, driven |-> FALSE, drifting |-> FALSE, hit |-> FALSE,
    bumped |-> FALSE ]

InitWorld ==
  [ mode |-> "free", gsPlayer |-> FALSE, gsVehicle |-> NoVehicle,
    vehicles |-> [id \in Vehicles |-> InitVehicle(id)],
    pl |-> InitPlayer,
    vi |-> [wired |-> FALSE, mode |-> "play", fPressed |-> FALSE,
            nearest |-> NoVehicle, prompt |-> FALSE],
    dir |-> [active |-> FALSE, previousMode |-> "free",
             previousCameraMode |-> "drone", tabPressed |-> FALSE,
             pPressed |-> FALSE],
    cam |-> [modes |-> <<"drone", "driving", "orbit", "cinematic", "path">>,
             active |-> "drone", allowed |-> {}, all |-> TRUE],
    orbit |-> [wired |-> FALSE, target |-> NoVehicle],
    ready |-> FALSE, keys |-> {},
    trig |-> [GP_RT |-> 0, GP_LT |-> 0],
    log |-> <<>>, probe |-> NoProbe, faulty |-> {} ]

Start(w, stage) ==
  /\ mode = w.mode /\ gsPlayer = w.gsPlayer /\ gsVehicle = w.gsVehicle
  /\ vehicles = w.vehicles /\ pl = w.pl /\ vi = w.vi /\ dir = w.dir
  /\ cam = w.cam /\ orbit = w.orbit /\ ready = w.ready /\ keys = w.keys
  /\ trig = w.trig /\ events = <<>> /\ probe = NoProbe
  /\ loadStage = stage /\ request = "none" /\ frames = 0

Init == Start(InitWorld, "start")

----------------------------------------------------------------------------
(* Steps *)

\* a key goes down (or auto-repeats)
KeyDown(code) ==
  /\ Commit(Window_keydown(World, code))
  /\ UNCHANGED <<loadStage, frames>>
  /\ request' = "none"

\* the gamepad triggers move
SetTrigger(name, value) ==
  /\ trig[name] # value
  /\ Commit([World EXCEPT !.trig[name] = value])
  /\ UNCHANGED <<loadStage, frames>>
  /\ request' = "none"

\* loadAssets: the city is loaded and the octree built
LoadCity ==
  /\ loadStage = "start"
  /\ Commit(CollisionWorld_build(World))
  /\ loadStage' = "city"
  /\ UNCHANGED frames
  /\ request' = "none"

\* loadAssets: vehicles, avatar and animations are loaded, everything is wired
LoadFinish ==
  /\ loadStage = "city"
  /\ Commit(Main_finishLoad(World))
  /\ loadStage' = "done"
  /\ UNCHANGED frames
  /\ request' = "none"

\* Engine._gameLoop: one frame of delta milliseconds.  The keydown and
\* keyup events since the previous frame leave the set held in
\* InputManager._keys when the frame samples it.
Frame(held, delta) ==
  /\ Commit(ModeController_update([World EXCEPT !.keys = held], delta))
  /\ frames' = frames + 1
  /\ UNCHANGED loadStage
  /\ request' = "none"

\* a caller asks the ModeController for a mode
EnterMode(m) ==
  /\ Commit(ModeController_enterMode(World, m))
  /\ request' = m
  /\ UNCHANGED <<loadStage, frames>>

----------------------------------------------------------------------------
(* Spec: the program as main.js wires it, at the level of modes.  Frames   *)
(* of one second let the character reach a vehicle in two frames.          *)

ModeInputs == {{}, {"Tab"}, {"KeyF"}, {"KeyW"}, {"KeyD"}, {"KeyD", "KeyF"}}
ModeDeltas == {1000}

ModeFrame ==
  /\ frames < MaxModeFrames
  /\ \E held \in ModeInputs, delta \in ModeDeltas : Frame(held, delta)

\* keydown of P is the only key main.js handles outside the frame loop
Next == KeyDown("KeyP") \/ LoadCity \/ LoadFinish \/ ModeFrame

Spec == Init /\ [][Next]_vars

----------------------------------------------------------------------------
(* SpecCamera: the same program with the camera keys: C cycles the camera  *)
(* on keydown, and a frame samples a digit key or P for DirectorMode.  P   *)
(* is sampled as held only after its keydown.                              *)

CameraFrame ==
  /\ frames < MaxCameraFrames
  /\ \E held \in ModeInputs \cup {{"Digit1"}, {"KeyP"}} :
       /\ "KeyP" \in held => "KeyP" \in keys
       /\ Frame(held, 1000)

NextCamera ==
  \/ KeyDown("KeyP") \/ KeyDown("KeyC")
  \/ LoadCity \/ LoadFinish \/ CameraFrame

SpecCamera == Init /\ [][NextCamera]_vars

----------------------------------------------------------------------------
(* SpecFault: the same program with listeners that throw.  In each frame   *)
(* none, one or all of the listeners called through EventBus.emit throw as *)
(* soon as they are called.                                                *)

FaultFrame ==
  /\ frames < MaxFaultFrames
  /\ \E held \in ModeInputs,
        bad \in {{}, {"ModeController"}, {"HUD"}, {"OrbitFollow"},
                 {"ModeController", "HUD", "OrbitFollow"}} :
       /\ Commit(ModeController_update(
                   [World EXCEPT !.keys = held, !.faulty = bad], 1000))
       /\ frames' = frames + 1
       /\ UNCHANGED loadStage
       /\ request' = "none"

SpecFault ==
  Init /\ [][KeyDown("KeyP") \/ LoadCity \/ LoadFinish \/ FaultFrame]_vars

----------------------------------------------------------------------------
(* SpecApi: the same program with callers of ModeController.enterMode,     *)
(* asking for the four modes and for names that are not modes.             *)

RequestedModes == VALID_MODES \cup {"garage", "DRIVE"}

ApiFrame ==
  /\ frames < MaxApiFrames
  /\ \E held \in ModeInputs, delta \in ModeDeltas : Frame(held, delta)

NextApi ==
  \/ KeyDown("KeyP") \/ LoadCity \/ LoadFinish \/ ApiFrame
  \/ \E m \in RequestedModes : EnterMode(m)

SpecApi == Init /\ [][NextApi]_vars

----------------------------------------------------------------------------
(* SpecPlayer: the character on foot.  It starts where loadAssets and a    *)
(* press of P leave the program, and runs frames of 0.1 s and 0.5 s.       *)

PlayWorld ==
  LET w1 == Main_finishLoad(CollisionWorld_build(InitWorld))
      w2 == Window_keyup(Window_keydown(w1, "KeyP"), "KeyP")
  IN [w2 EXCEPT !.log = <<>>]

InitPlay == Start(PlayWorld, "done")

PlayerInputs == {{}, {"Space"}, {"KeyA", "Space"}, {"KeyD"}}
PlayerDeltas == {100, 500}

PlayerFrame ==
  /\ frames < MaxPlayerFrames
  /\ \E held \in PlayerInputs, delta \in PlayerDeltas : Frame(held, delta)

SpecPlayer == InitPlay /\ [][PlayerFrame]_vars

----------------------------------------------------------------------------
(* SpecDrive: at the wheel.  It starts where the player has walked to the  *)
(* first vehicle and entered it, and runs frames of 16 ms and 1 s with the *)
(* keyboard and the gamepad triggers.                                      *)

DriveWorld ==
  LET w1 == ModeController_update([PlayWorld EXCEPT !.keys = {"KeyW"}], 1000)
      w2 == ModeController_update(
              [w1 EXCEPT !.keys = {"KeyD", "KeyF"}, !.log = <<>>], 1000)
  IN [w2 EXCEPT !.log = <<>>, !.probe = NoProbe]

InitDrive == Start(DriveWorld, "done")

DriveInputs ==
  {{}, {"KeyW"}, {"KeyW", "ShiftLeft"}, {"KeyS"}, {"KeyW", "KeyA"},
   {"Space"}, {"KeyF"}}
DriveDeltas == {16, 1000}

DriveFrame ==
  /\ frames < MaxDriveFrames
  /\ \E held \in DriveInputs, delta \in DriveDeltas : Frame(held, delta)

\* a frame, or a gamepad trigger moves between released and fully pressed
NextDrive ==
  \/ DriveFrame
  \/ \E name \in {"GP_RT", "GP_LT"}, value \in {0, 1000} : SetTrigger(name, value)

SpecDrive == InitDrive /\ [][NextDrive]_vars

----------------------------------------------------------------------------
(* SpecIndex: the character on foot or at the wheel while the collision    *)
(* index is discarded and built again through the CollisionWorld           *)
(* singleton.                                                              *)

InitIndex == Start(PlayWorld, "done") \/ Start(DriveWorld, "done")

\* CollisionWorld.dispose()
Dispose ==
  /\ ready
  /\ Commit(CollisionWorld_dispose(World))
  /\ UNCHANGED <<loadStage, frames>>
  /\ request' = "none"

\* CollisionWorld.build(city.scene) once more
Rebuild ==
  /\ ~ready
  /\ Commit(CollisionWorld_build(World))
  /\ UNCHANGED <<loadStage, frames>>
  /\ request' = "none"

\* frames of 0.5 s and 1 s that jump, jump toward the block, drive, boost
\* or press interact
IndexFrame ==
  /\ frames < MaxIndexFrames
  /\ \E held \in {{}, {"Space"}, {"KeyA", "Space"}, {"KeyW"},
                   {"KeyW", "ShiftLeft"}, {"KeyF"}},
        delta \in {500, 1000} : Frame(held, delta)

NextIndex == IndexFrame \/ Dispose \/ Rebuild

SpecIndex == InitIndex /\ [][NextIndex]_vars

----------------------------------------------------------------------------
(* SpecMotion: the controllers under held input.  A run starts on foot at  *)
(* rest, or at the wheel at rest, at 20 m/s or reversing at 5 m/s, with    *)
(* one set of keys held throughout and the gamepad's left trigger released *)
(* or fully pressed.  The first MotionWarmup frames take 0, 16, 100 or     *)
(* 1000 ms; every later frame takes 16 ms (1/60 s).                        *)

InitMotion ==
  \E w \in {PlayWorld} \cup
            {[DriveWorld EXCEPT !.vehicles[DriveWorld.gsVehicle].speed = s,
                                !.vehicles[DriveWorld.gsVehicle].prevSpeed = s] :
               s \in {0, 20000, -5000}},
     held \in {{}, {"KeyW"}, {"KeyW", "ShiftLeft"}, {"KeyW", "ControlLeft"},
               {"KeyW", "ShiftLeft", "ControlLeft"}, {"ControlLeft"},
               {"KeyA"}, {"KeyW", "KeyA"}, {"KeyS"}, {"Space"},
               {"KeyA", "Space"}},
     lt \in {0, 1000} :
       Start([w EXCEPT !.keys = held, !.trig.GP_LT = lt], "done")

MotionFrame ==
  /\ frames < MaxMotionFrames
  /\ \E delta \in (IF frames < MotionWarmup THEN {0, 16, 100, 1000} ELSE {16}) :
       Frame(keys, delta)

SpecMotion == InitMotion /\ [][MotionFrame]_vars

----------------------------------------------------------------------------
(* SpecJump: the character on foot with the jump key pressed and released  *)
(* between frames of 50 ms and 0.5 s, so that a buffered request can be    *)
(* younger or older than JUMP_BUFFER_TIME when the character comes down.   *)

JumpFrame ==
  /\ frames < MaxJumpFrames
  /\ \E held \in {{}, {"Space"}}, delta \in {50, 500} : Frame(held, delta)

SpecJump == InitPlay /\ [][JumpFrame]_vars

----------------------------------------------------------------------------
(* Occupancy and the drive mode *)


\* C1: whenever GameState.mode is 'drive' exactly one vehicle has
\* occupied = true, and whenever no vehicle is occupied the mode is not
\* 'drive'.
C1_DriveHasOneOccupied ==
  /\ mode = "drive" => Cardinality(Occupied(World)) = 1
  /\ Occupied(World) = {} => mode # "drive"

\* C2: whenever some vehicle is occupied with the player as driver, the
\* mode is 'drive' (also while director mode is toggled on from driving).
C2_OccupiedMeansDrive ==
  \A v \in Vehicles :
    vehicles[v].occupied /\ vehicles[v].driver = "player" => mode = "drive"

\* C3: at most one vehicle is occupied; it is GameState.vehicle and its
\* driver is the player; every other vehicle has occupied = false and
\* driver = null.
C3_SingleOccupant ==
  /\ Cardinality(Occupied(World)) <= 1
  /\ \A v \in Vehicles :
       IF vehicles[v].occupied
       THEN gsVehicle = v /\ vehicles[v].driver = "player"
       ELSE vehicles[v].driver = "none"

----------------------------------------------------------------------------
(* Mode-changed notifications *)

ModeChanges(log) == SelectSeq(log, LAMBDA e : e.ev = "gamestate:modeChanged")

\* the listeners of gamestate:modeChanged, in registration order
Observers(wired) ==
  IF wired THEN <<"ModeController", "HUD", "OrbitFollow">>
  ELSE <<"ModeController", "HUD">>

\* C4: in every step, the mode-changed deliveries come as one round per
\* setMode call, each subscribed observer once per round; previous is the
\* mode before the call, mode is GameState.mode at delivery, and no round
\* is delivered for a request that leaves the mode unchanged.
C4_NoTornOrDuplicate ==
  [][LET d == ModeChanges(events')
         obs == Observers(orbit'.wired)
         k == Len(obs)
     IN /\ Len(d) % k = 0
        /\ \A j \in 1..Len(d) :
             /\ d[j].obs = obs[((j - 1) % k) + 1]
             /\ d[j].mode = d[j].gsMode
             /\ d[j].previous = IF j <= k THEN mode ELSE d[j - k].mode
             /\ d[j].previous # d[j].mode]_vars

\* C5: a request for a name outside VALID_MODES changes neither
\* GameState.mode, nor the active camera, nor the allowed camera set, nor
\* VehicleInteraction's operating mode, and delivers no mode-changed
\* notification.
C5_InvalidModeIgnored ==
  [][request' \notin VALID_MODES \cup {"none"} =>
       /\ mode' = mode
       /\ ModeChanges(events') = <<>>
       /\ cam'.active = cam.active
       /\ cam'.allowed = cam.allowed
       /\ cam'.all = cam.all
       /\ vi'.mode = vi.mode]_vars

\* an invalid name was requested while driving, and the drive setup is intact
C5_Witness ==
  /\ request = "garage"
  /\ mode = "drive"
  /\ cam.active = "driving"
  /\ vi.mode = "drive"

----------------------------------------------------------------------------
(* Jumping *)

\* C6: a jump requested in the air while not eligible, followed by a
\* landing at most JUMP_BUFFER_TIME later, fires exactly one jump on that
\* landing: in the landing update for the ground plane, and by the update
\* that follows for a landing on collision geometry.
C6_BufferedJumpFiresOnce ==
  [][/\ (pl'.landed = "plane" /\ pl'.reqAge \in 0..JUMP_BUFFER_TIME
           => pl'.jumps = 1)
     /\ (pl.landed = "capsule" /\ pl.reqAge \in 0..JUMP_BUFFER_TIME
           => pl'.jumps = 1)]_vars

\* C7: after the character left the ground without jumping and has not
\* landed, a jump asked for inside COYOTE_TIME fires and a jump asked for
\* after COYOTE_TIME does not.
C7_CoyoteWindow ==
  /\ (pl.asked /\ pl.coyoteAge >= 0 /\ pl.coyoteAge < COYOTE_TIME => pl.jumped)
  /\ (pl.asked /\ pl.coyoteAge > COYOTE_TIME => ~pl.jumped)

----------------------------------------------------------------------------
(* Driving *)

\* C8: once drive() has run on a vehicle its speed is within
\* [-0.3 * maxSpeed * boostMultiplier, maxSpeed * boostMultiplier], and
\* within [-0.3 * maxSpeed, maxSpeed] when boost was not held in that call.
C8_SpeedClamped ==
  \A v \in Vehicles :
    vehicles[v].driven =>
      LET top == Scale(maxSpeed, boostMultiplier)
      IN /\ vehicles[v].speed >= -Scale(top, 300)
         /\ vehicles[v].speed <= top
         /\ ~vehicles[v].boosted =>
              /\ vehicles[v].speed >= -Scale(maxSpeed, 300)
              /\ vehicles[v].speed <= maxSpeed

\* a drive() without boost has left a vehicle at exactly maxSpeed
C8_Witness ==
  \E v \in Vehicles :
    /\ vehicles[v].driven
    /\ ~vehicles[v].boosted
    /\ vehicles[v].speed = maxSpeed

\* C9: when a step has emitted vehicle:exited, the exited vehicle's speed,
\* drift factor, suspension offset and suspension velocity are all zero.
C9_ExitResetsVehicle ==
  \A i \in 1..Len(events) :
    events[i].ev = "vehicle:exited" =>
      LET v == vehicles[events[i].veh]
      IN v.speed = 0 /\ v.drift = 0 /\ v.suspY = 0 /\ v.suspVel = 0

----------------------------------------------------------------------------
(* Entering a vehicle *)

\* squared distance from the character to vehicle v, in the current state
PlayerDist2(v) ==
  (pl.x - vehicles[v].x) * (pl.x - vehicles[v].x)
    + (pl.y - vehicles[v].y) * (pl.y - vehicles[v].y)
    + (pl.z - vehicles[v].z) * (pl.z - vehicles[v].z)

Reachable(v) ==
  /\ Abs(pl.x - vehicles[v].x) < VEHICLE_ENTER_DISTANCE
  /\ Abs(pl.y - vehicles[v].y) < VEHICLE_ENTER_DISTANCE
  /\ Abs(pl.z - vehicles[v].z) < VEHICLE_ENTER_DISTANCE
  /\ PlayerDist2(v) < VEHICLE_ENTER_DISTANCE * VEHICLE_ENTER_DISTANCE

----------------------------------------------------------------------------
(* Leaving a vehicle *)

\* C11: in drive mode with GameState.vehicle set, a VehicleInteraction.update
\* that sees an interact press edge ends with that vehicle at speed 0,
\* unoccupied and without driver, GameState.vehicle null, the character at
\* the vehicle's position plus 3 units along its local +X axis with y = 0,
\* the body visible and the mode 'play'.
C11_InteractExits ==
  probe.ran /\ probe.edge /\ probe.branch = "drive"
    /\ probe.modeBefore = "drive" /\ probe.gsVehicleBefore # NoVehicle =>
      LET v == vehicles[probe.gsVehicleBefore]
      IN /\ v.speed = 0
         /\ ~v.occupied
         /\ v.driver = "none"
         /\ probe.gsVehicleAfter = NoVehicle
         /\ pl.x = v.x + ExitOffsetX(v)
         /\ pl.y = 0
         /\ pl.z = v.z + ExitOffsetZ(v)
         /\ probe.visibleAfter
         /\ probe.modeAfter = "play"

\* the player has left a vehicle that was moving and had turned
C11_Witness ==
  /\ probe.ran /\ probe.edge /\ probe.branch = "drive"
  /\ probe.gsVehicleBefore = 1
  /\ vehicles[1].rotY # 0
  /\ vehicles[1].prevSpeed # 0
  /\ mode = "play"

\* C12: a VehicleInteraction.update in the drive branch that sees an
\* interact press edge while GameState.vehicle is null changes nothing: the
\* mode, the character's position and visibility and every vehicle's
\* occupied, driver and speed stay as they were, and neither vehicle:exited
\* nor gamestate:modeChanged is emitted.
C12_ExitWithoutVehicle ==
  [][probe'.ran /\ probe'.edge /\ probe'.branch = "drive"
       /\ probe'.gsVehicleBefore = NoVehicle =>
         /\ probe'.modeAfter = probe'.modeBefore
         /\ pl'.x = pl.x /\ pl'.y = pl.y /\ pl'.z = pl.z
         /\ probe'.visibleAfter = probe'.visibleBefore
         /\ pl'.visible = pl.visible
         /\ probe'.gsVehicleAfter = NoVehicle
         /\ \A v \in Vehicles :
              /\ vehicles'[v].occupied = vehicles[v].occupied
              /\ vehicles'[v].driver = vehicles[v].driver
              /\ vehicles'[v].speed = vehicles[v].speed
         /\ "vehicle:exited" \notin probe'.emitted
         /\ "gamestate:modeChanged" \notin probe'.emitted]_vars

\* interact was pressed in drive mode with nobody at a wheel
C12_Witness ==
  /\ probe.ran /\ probe.edge /\ probe.branch = "drive"
  /\ probe.gsVehicleBefore = NoVehicle
  /\ mode = "drive"

----------------------------------------------------------------------------
(* Routing of the frame update *)

\* C13: PlayerController.update runs only in frames that start in 'play';
\* Vehicle.drive runs only in frames that start in 'drive', and only on
\* GameState.vehicle, which is occupied; a frame that starts in 'free' or
\* 'director' updates neither the player controller, nor a vehicle, nor
\* VehicleInteraction; no frame updates both the player controller and a
\* vehicle.
C13_UpdatesFollowMode ==
  [][/\ (probe'.player => mode = "play")
     /\ (probe'.drove # {} =>
           /\ mode = "drive"
           /\ probe'.drove = {gsVehicle}
           /\ vehicles[gsVehicle].occupied)
     /\ (mode \in {"free", "director"} =>
           ~probe'.player /\ probe'.drove = {} /\ ~probe'.ran)
     /\ ~(probe'.player /\ probe'.drove # {})]_vars

\* a frame in drive mode has driven the second vehicle and nothing else
C13_Witness ==
  /\ probe.ran /\ probe.modeBefore = "drive"
  /\ probe.drove = {2}
  /\ ~probe.player

----------------------------------------------------------------------------
(* The ground plane and the collision index *)

\* C14: after every PlayerController.update, with the collision index built
\* or not, the character's position.y is at least GROUND_Y; and when it is
\* at GROUND_Y the character is either grounded with vertical velocity 0 or
\* has just fired a buffered jump.
C14_NeverBelowGround ==
  probe.player =>
    /\ pl.y >= GROUND_Y
    /\ pl.y = GROUND_Y =>
         \/ pl.grounded /\ pl.vy = 0
         \/ ~pl.grounded /\ pl.vy = JUMP_FORCE /\ pl.jumped /\ pl.state = "jump"

\* the character came down on the ground plane with the index discarded
C14_Witness ==
  /\ probe.player
  /\ ~ready
  /\ pl.landed = "plane"
  /\ pl.y = GROUND_Y
  /\ pl.grounded

\* C15: while CollisionWorld.ready is false (before build, after dispose)
\* capsuleCollision and sphereCollision report no collision, and a
\* PlayerController.update or Vehicle.drive run in that state leaves
\* position and speed as integration produced them: no push-out, no speed
\* cut, no grounding from collision.
C15_NoIndexNoCollision ==
  ~ready =>
    /\ ~CollisionWorld_capsuleCollision(World, pl.x, pl.y, pl.z).collided
    /\ \A v \in Vehicles :
         ~CollisionWorld_sphereCollision(
            World, vehicles[v].x, vehicles[v].y, vehicles[v].z).collided
    /\ probe.player => ~pl.pushed /\ pl.landed # "capsule"
    /\ \A v \in probe.drove : ~vehicles[v].hit

\* with the index discarded the character was updated inside the block
C15_Witness ==
  /\ ~ready
  /\ probe.player
  /\ Intersect(pl.x, pl.y, pl.z, CAPSULE_RADIUS).collided
  /\ ~pl.pushed

----------------------------------------------------------------------------
(* The locomotion state *)

\* C16: at the end of every PlayerController.update that leaves the
\* character airborne (not grounded) the state is 'jump' or 'falling',
\* never idle, walk, run or sprint; so after a jump the state stays 'jump'
\* while the character rises and turns to 'falling' when the vertical
\* velocity is negative.
C16_AirborneIsJumpOrFalling ==
  probe.player /\ ~pl.grounded => pl.state \in {"jump", "falling"}

StateChanges(log) == SelectSeq(log, LAMBDA e : e.ev = "player:stateChanged")

\* C17: a PlayerController.update emits player:stateChanged exactly when
\* the state at its end differs from the state at its start, once, with
\* the new state as payload; no other step emits it or changes the state,
\* so a notification never repeats the payload of the one before it and
\* the last notified state is the controller's state.
C17_StateChangeNotified ==
  [][LET n == StateChanges(events')
     IN /\ Len(n) = (IF probe'.player /\ pl'.state # pl.state THEN 1 ELSE 0)
        /\ pl'.state # pl.state => probe'.player
        /\ Len(n) = 1 =>
             /\ n[1].mode = pl'.state
             /\ n[1].mode # pl.notified
        /\ pl'.notified \in {"-", pl'.state}]_vars

\* the second notification of a jump: from 'jump' to 'falling'
C17_Witness ==
  /\ probe.player
  /\ Len(StateChanges(events)) = 1
  /\ StateChanges(events)[1].previous = "jump"
  /\ pl.notified = "falling"
  /\ pl.state = "falling"

----------------------------------------------------------------------------
(* The suspension *)

\* C18: after every Vehicle.drive call the vehicle's position.y is at or
\* above ground height 0; the suspension offset added after the ground
\* clamp never puts it below.
C18_VehicleNotBelowGround ==
  \A v \in probe.drove : vehicles[v].y >= 0

\* C19: after any number of drive() calls on flat ground without a
\* collision the suspension offset is within [-0.15, 0.15] and the
\* vehicle's position.y is within 0.15 of ground height: the offset of one
\* frame does not accumulate into the position.
C19_BoundedBob ==
  \A v \in Vehicles :
    vehicles[v].driven /\ ~vehicles[v].bumped =>
      /\ vehicles[v].suspY >= -150 /\ vehicles[v].suspY <= 150
      /\ vehicles[v].y >= -150 /\ vehicles[v].y <= 150

----------------------------------------------------------------------------
(* Cameras of a mode *)

\* C20: a step that changes the mode leaves the camera system's allowed
\* set equal to MODE_CONFIG[mode].allowedCams and, when the default camera
\* of the mode is registered, that camera active; and through mode
\* changes, C-key cycles and director keys the active camera is always
\* one that MODE_CONFIG allows in the current mode (every registered
\* camera when allowedCams is null).
C20_CameraAllowedInMode ==
  [][/\ ModeChanges(events') # <<>> =>
          /\ cam'.allowed = MODE_CONFIG[mode'].allowedCams
          /\ cam'.all = MODE_CONFIG[mode'].all
          /\ InSeq(MODE_CONFIG[mode'].defaultCam, cam'.modes) =>
               cam'.active = MODE_CONFIG[mode'].defaultCam
     /\ cam'.active \in
          (IF MODE_CONFIG[mode'].all
           THEN {cam'.modes[i] : i \in 1..Len(cam'.modes)}
           ELSE MODE_CONFIG[mode'].allowedCams)]_vars

----------------------------------------------------------------------------
(* Director toggle *)

----------------------------------------------------------------------------
(* Smoothing and speed *)

\* C22: in every frame, whatever its delta >= 0, each smoothing step ends
\* between the old value and its target: the character's horizontal
\* velocity components, the vehicle's steer angle, its drift factor
\* (toward 1 while drifting, toward 0 otherwise) and, in a frame with
\* throttle, no brake and no collision, the vehicle's speed.
C22_SmoothingNoOvershoot ==
  [][frames' # frames =>
       /\ mode = "play" /\ gsPlayer =>
            /\ Min(pl.vx, Scale(DirX(World'), TargetSpeed(World'))) <= pl'.vx
            /\ pl'.vx <= Max(pl.vx, Scale(DirX(World'), TargetSpeed(World')))
            /\ Min(pl.vz, Scale(DirZ(World'), TargetSpeed(World'))) <= pl'.vz
            /\ pl'.vz <= Max(pl.vz, Scale(DirZ(World'), TargetSpeed(World')))
       /\ mode = "drive" /\ gsVehicle # NoVehicle /\ gsVehicle' = gsVehicle
            /\ gsVehicle \in probe'.drove =>
            LET v   == vehicles[gsVehicle]
                v2  == vehicles'[gsVehicle]
                in  == Vehicle_gatherInput([World EXCEPT !.keys = keys'], v)
                top == IF in.accelInput > 0
                       THEN Scale(in.accelInput, Vehicle_maxSpd(in))
                       ELSE Scale(Scale(in.accelInput, Vehicle_maxSpd(in)), 300)
            IN /\ Min(v.steerAngle, in.steerInput) <= v2.steerAngle
               /\ v2.steerAngle <= Max(v.steerAngle, in.steerInput)
               /\ IF \E i \in 1..Len(events') : events'[i].ev = "vehicle:drifting"
                  THEN v.drift <= v2.drift /\ v2.drift <= 1000
                  ELSE 0 <= v2.drift /\ v2.drift <= v.drift
               /\ (in.accelInput # 0 /\ ~in.isBraking /\ ~v2.hit) =>
                    /\ Min(v.speed, top) <= v2.speed
                    /\ v2.speed <= Max(v.speed, top)]_vars

\* at the wheel with throttle and steering held, the steer angle, the
\* drift factor and the speed are all part of the way to their targets
C22_Witness ==
  /\ frames > 0 /\ mode = "drive" /\ gsVehicle # NoVehicle
  /\ vehicles[gsVehicle].steerAngle > 0 /\ vehicles[gsVehicle].steerAngle < 1000
  /\ vehicles[gsVehicle].drift > 0 /\ vehicles[gsVehicle].drift < 1000
  /\ vehicles[gsVehicle].speed > 20000 /\ vehicles[gsVehicle].speed < maxSpeed

\* C23: on foot with only the forward key held from rest (run tier), the
\* horizontal speed never decreases from one frame to the next and never
\* exceeds RUN_SPEED.
C23_RunSpeedMonotone ==
  [][(frames' # frames /\ mode = "play" /\ keys' = {"KeyW"}) =>
       /\ pl'.vx = 0
       /\ Abs(pl'.vz) >= Abs(pl.vz)
       /\ Abs(pl'.vz) <= RUN_SPEED]_vars

\* after 60 frames of forward input the character runs, grounded, faster
\* than walking and no faster than RUN_SPEED
C23_Witness ==
  /\ mode = "play" /\ keys = {"KeyW"} /\ frames = 60
  /\ pl.grounded /\ pl.vz < -WALK_SPEED /\ pl.vz >= -RUN_SPEED

\* C24: in every drive() call with zero throttle input the magnitude of
\* the speed does not increase and its sign does not flip; with full brake
\* input held from a speed of at most 20 m/s the speed is exactly 0 once
\* 0.5 s have passed; and a speed of 0 stays 0 while the throttle input is
\* zero.
C24_CoastAndBrake ==
  [][(frames' # frames /\ mode = "drive" /\ gsVehicle # NoVehicle
        /\ gsVehicle' = gsVehicle /\ gsVehicle \in probe'.drove) =>
       LET v  == vehicles[gsVehicle]
           v2 == vehicles'[gsVehicle]
           in == Vehicle_gatherInput([World EXCEPT !.keys = keys'], v)
       IN in.accelInput = 0 =>
            /\ Abs(v2.speed) <= Abs(v.speed)
            /\ v2.speed * Sign(v.speed) >= 0
            /\ v.speed = 0 => v2.speed = 0
            /\ (in.brakeInput = 1000 /\ (frames' - MotionWarmup) * 16 >= 500) =>
                 v2.speed = 0]_vars

----------------------------------------------------------------------------
(* Capsule resolution *)

----------------------------------------------------------------------------
(* Jump buffer expiry *)

\* C27: a landing more than JUMP_BUFFER_TIME after the last jump request,
\* with no jump input in the update, fires no jump (for a landing on
\* collision geometry: neither in the landing update nor in the next one);
\* an update fires at most one jump and leaves the buffer empty when it
\* fires; and a jump fired without jump input comes from a request that no
\* earlier landing has used and that is at most JUMP_BUFFER_TIME old.
C27_BufferExpires ==
  [][(frames' # frames /\ mode = "play" /\ gsPlayer) =>
       /\ (pl'.landed # "none" /\ pl'.reqAge > JUMP_BUFFER_TIME /\ ~pl'.asked)
            => pl'.jumps = 0
       /\ (pl.landed = "capsule" /\ pl.reqAge > JUMP_BUFFER_TIME /\ ~pl'.asked)
            => pl'.jumps = 0
       /\ pl'.jumps > 0 => pl'.jumps = 1 /\ pl'.jumpBuf = 0
       /\ (pl'.jumps > 0 /\ ~pl'.asked) =>
            (IF pl.landed = "capsule" THEN pl.reqAge ELSE pl'.reqAge)
               \in 0..JUMP_BUFFER_TIME]_vars

\* the character came down on the ground plane 0.2 s or more after a
\* buffered request, with no jump input, and stayed on the ground
C27_Witness ==
  /\ mode = "play" /\ pl.landed = "plane" /\ ~pl.asked
  /\ pl.reqAge > JUMP_BUFFER_TIME
  /\ pl.jumps = 0 /\ pl.grounded /\ pl.jumpBuf < 0

----------------------------------------------------------------------------
(* Facing *)

\* C28: an update that ends airborne, or that has no movement input,
\* leaves rotation.y as it was; an update that ends grounded with movement
\* input turns rotation.y toward the movement direction along the shortest
\* arc (an angle of at most pi that differs from target - current by a
\* whole number of turns) and by no more than that arc.
C28_FacingOnGround ==
  [][(frames' # frames /\ mode = "play" /\ gsPlayer) =>
       IF ~pl'.grounded \/ ~HasInput(World')
       THEN pl'.rotY = pl.rotY
       ELSE \E k \in -2..2 :
              \A arc \in {Atan2Dir(DirX(World'), DirZ(World')) - pl.rotY + k * TWO_PI} :
                /\ Abs(arc) <= PI
                /\ Min(0, arc) <= pl'.rotY - pl.rotY
                /\ pl'.rotY - pl.rotY <= Max(0, arc)]_vars

\* the character has turned part of the way toward the left (-pi/2) while
\* running on the ground
C28_Witness ==
  /\ mode = "play" /\ keys = {"KeyA"} /\ pl.grounded /\ frames > 0
  /\ pl.rotY < 0 /\ pl.rotY > -1571

----------------------------------------------------------------------------
(* Speed tiers *)

----------------------------------------------------------------------------
(* Steering *)

\* C30: in a 16 ms drive() call whose speed after the acceleration step
\* has magnitude <= 0.5 the heading is unchanged whatever the steer input;
\* and the turn of a call is never larger than the turn with the same
\* speed and steer angle and drift factor 0.
C30_NoTurnAtRest ==
  [][(frames' # frames /\ frames >= MotionWarmup /\ mode = "drive"
        /\ gsVehicle # NoVehicle /\ gsVehicle' = gsVehicle
        /\ gsVehicle \in probe'.drove) =>
       \A in \in {Vehicle_gatherInput([World EXCEPT !.keys = keys'],
                                      vehicles[gsVehicle])} :
       \A s \in {Vehicle_applyAcceleration(vehicles[gsVehicle].speed,
                   in.accelInput, in.brakeInput, in.isBraking,
                   Vehicle_maxSpd(in), 16)} :
         /\ Abs(s) <= 500 => vehicles'[gsVehicle].rotY = vehicles[gsVehicle].rotY
         /\ Abs(vehicles'[gsVehicle].rotY - vehicles[gsVehicle].rotY)
              <= Abs(Scale(Scale(Scale(vehicles'[gsVehicle].steerAngle, steerSpeed),
                                 Min(1000, Abs(s) \div 10)),
                           16))]_vars

\* the vehicle stands still with the wheels turned well over half way and
\* has kept its heading
C30_Witness ==
  /\ mode = "drive" /\ gsVehicle # NoVehicle /\ frames > MotionWarmup
  /\ keys = {"KeyA"} /\ trig.GP_LT = 0
  /\ vehicles[gsVehicle].speed = 0
  /\ vehicles[gsVehicle].steerAngle > 500
  /\ vehicles[gsVehicle].rotY = DriveWorld.vehicles[DriveWorld.gsVehicle].rotY

----------------------------------------------------------------------------
(* Drift *)

\* C31: after every drive() call the smoothed steer angle is in [-1, 1] and
\* the drift factor in [0, 1]; the call emits vehicle:drifting exactly once
\* when (|speed| / maxSpeed) * |steer angle| > VEHICLE_GRIP_THRESHOLD and
\* |speed| / maxSpeed > 0.4 hold for the speed and steer angle it has set
\* (a call that hit something has changed the speed afterwards and is not
\* judged), and not at all otherwise; and a call that does not emit does
\* not raise the drift factor.
C31_DriftBounded ==
  [][(frames' # frames /\ mode = "drive" /\ gsVehicle # NoVehicle
        /\ gsVehicle' = gsVehicle /\ gsVehicle \in probe'.drove) =>
       \A n \in {Cardinality({i \in 1..Len(events') :
                               events'[i].ev = "vehicle:drifting"})} :
         /\ vehicles'[gsVehicle].steerAngle \in -1000..1000
         /\ vehicles'[gsVehicle].drift \in 0..1000
         /\ n <= 1
         /\ n = 0 => vehicles'[gsVehicle].drift <= vehicles[gsVehicle].drift
         /\ ~vehicles'[gsVehicle].hit =>
              (n = 1 <=>
                 /\ Scale(Abs(vehicles'[gsVehicle].speed) \div (maxSpeed \div 1000),
                          Abs(vehicles'[gsVehicle].steerAngle)) > VEHICLE_GRIP_THRESHOLD
                 /\ Abs(vehicles'[gsVehicle].speed) \div (maxSpeed \div 1000) > 400)]_vars

\* a drive() call at speed with the wheels turned has just emitted
\* vehicle:drifting and raised the drift factor
C31_Witness ==
  /\ mode = "drive" /\ gsVehicle # NoVehicle
  /\ \E i \in 1..Len(events) : events[i].ev = "vehicle:drifting"
  /\ vehicles[gsVehicle].drift > 0
  /\ Abs(vehicles[gsVehicle].steerAngle) > 700
  /\ vehicles[gsVehicle].speed > 16000

----------------------------------------------------------------------------
(* The interact key *)

\* C32: while F stays held, at most one enter-or-exit happens.  In every
\* frame: with F held and _fPressed already set nothing is entered or
\* left; a frame that enters or leaves a vehicle ends with _fPressed set;
\* and _fPressed stays set through every frame sampled with F held,
\* whether VehicleInteraction.update runs in it (play, drive) or not
\* (free, director).
C32_HeldKeyTogglesOnce ==
  [][frames' # frames =>
       /\ ("KeyF" \in keys' /\ vi.fPressed) =>
            /\ gsVehicle' = gsVehicle
            /\ \A v \in Vehicles : vehicles'[v].occupied = vehicles[v].occupied
            /\ vi'.fPressed
       /\ (gsVehicle' # gsVehicle
             \/ \E v \in Vehicles : vehicles'[v].occupied # vehicles[v].occupied) =>
            "KeyF" \in keys' /\ vi'.fPressed]_vars

\* F is still held in the frame after the one that entered the vehicle:
\* the vehicle was driven in this frame and is still occupied
C32_Witness ==
  /\ mode = "drive" /\ "KeyF" \in keys /\ vi.fPressed
  /\ gsVehicle # NoVehicle /\ gsVehicle \in probe.drove
  /\ vehicles[gsVehicle].occupied

----------------------------------------------------------------------------
(* Listeners that throw *)

\* C33: a listener that throws during emit stops nothing: in every frame each
\* mode-changed round still calls every subscribed listener exactly once, in
\* registration order, and ends with the mode it announced; an enter leaves
\* the mode 'drive', the vehicle occupied and GameState.vehicle set, and
\* publishes vehicle:entered; an exit leaves the mode 'play', the vehicle
\* free and at rest and GameState.vehicle null, and publishes vehicle:exited;
\* occupancy never changes without GameState.vehicle changing with it.
C33_ListenerFailuresIsolated ==
  [][frames' # frames =>
       \A d \in {ModeChanges(events')}, obs \in {Observers(orbit'.wired)} :
         /\ Len(d) % Len(obs) = 0
         /\ \A j \in 1..Len(d) :
              /\ d[j].obs = obs[((j - 1) % Len(obs)) + 1]
              /\ d[j].mode = d[j - ((j - 1) % Len(obs))].mode
         /\ d # <<>> => d[Len(d)].mode = mode'
         /\ (gsVehicle' # gsVehicle /\ gsVehicle' # NoVehicle) =>
              /\ mode' = "drive"
              /\ vehicles'[gsVehicle'].occupied
              /\ ~pl'.visible
              /\ \E i \in 1..Len(events') :
                   events'[i].ev = "vehicle:entered" /\ events'[i].veh = gsVehicle'
         /\ (gsVehicle' # gsVehicle /\ gsVehicle' = NoVehicle) =>
              /\ mode' = "play"
              /\ ~vehicles'[gsVehicle].occupied
              /\ vehicles'[gsVehicle].speed = 0
              /\ pl'.visible
              /\ \E i \in 1..Len(events') :
                   events'[i].ev = "vehicle:exited" /\ events'[i].veh = gsVehicle
         /\ (\E v \in Vehicles : vehicles'[v].occupied # vehicles[v].occupied) =>
              gsVehicle' # gsVehicle]_vars

\* an enter during which the mode controller's listener threw: the
\* interaction was never told of the drive mode, yet the enter is complete
\* and the listeners after the failed one were called
C33_Witness ==
  /\ mode = "drive" /\ vi.mode = "play"
  /\ gsVehicle # NoVehicle /\ vehicles[gsVehicle].occupied /\ ~pl.visible
  /\ orbit.target = gsVehicle
  /\ \E i, j, k \in 1..Len(events) :
       /\ i < j /\ j < k
       /\ events[i].obs = "ModeController" /\ events[i].mode = "drive"
       /\ events[j].obs = "HUD" /\ events[j].mode = "drive"
       /\ events[k].ev = "vehicle:entered"

----------------------------------------------------------------------------
(* Jumps in the air *)

\* C34: no mid-air double jump: at most one jump fires in an update, and a
\* jump fires only in an update that the character began grounded or in
\* which it came down to the ground plane (the buffered auto-fire); an
\* airborne character that stays above the ground does not jump, whatever
\* the jump input and the frame deltas are.
C34_NoDoubleJump ==
  [][frames' # frames =>
       /\ pl'.jumps <= 1
       /\ pl'.jumped => (pl.grounded \/ pl'.landed = "plane")
       /\ (pl'.jumped /\ ~pl.grounded) => (pl'.y = GROUND_Y /\ pl'.vy = JUMP_FORCE)]_vars

\* the jump key is held and a request is buffered while the character is in
\* the air after a jump, and no jump fired in this update
C34_Witness ==
  /\ ~pl.grounded /\ pl.y > GROUND_Y /\ pl.vy < JUMP_FORCE
  /\ "Space" \in keys /\ pl.jumpBuf > 0 /\ ~pl.jumped
  /\ frames >= 2

----------------------------------------------------------------------------
(* Leaving the ground *)

\* C35: the grounded flag goes from true to false only in an update in which
\* a jump fires; an airborne character has a coyote timer <= 0; a grounded
\* character that does not jump stays grounded and gets no gravity (its
\* vertical velocity is kept), also where nothing is beneath it.
C35_GroundedUntilJump ==
  [][frames' # frames =>
       /\ (pl.grounded /\ ~pl'.grounded) => pl'.jumped
       /\ ~pl'.grounded => pl'.coyote <= 0
       /\ (pl.grounded /\ ~pl'.jumped) =>
            /\ pl'.grounded
            /\ pl'.vy = pl.vy
            /\ (pl.y > GROUND_Y /\ pl.vy = 0) => pl'.y = pl.y]_vars

\* the character walked off the block and is still grounded, at rest
\* vertically, with nothing beneath it
C35_Witness ==
  /\ pl.grounded /\ ~pl.supported /\ pl.y > GROUND_Y /\ pl.vy = 0
  /\ pl.fallAge > 0 /\ ~pl.jumped

----------------------------------------------------------------------------
(* Vertical rest *)

\* C36: a grounded character has no vertical motion: after every update in
\* which the character is grounded its vertical velocity is exactly 0, and
\* in the following updates its height stays the same until it jumps (or a
\* collision moves it).
C36_GroundedAtRest ==
  [][frames' # frames =>
       /\ pl'.grounded => pl'.vy = 0
       /\ (pl.grounded /\ ~pl'.jumped /\ ~pl'.pushed) => pl'.y = pl.y]_vars

----------------------------------------------------------------------------
(* Director mode and the authoritative mode *)

\* C37: DirectorMode.active is true if and only if GameState.mode is
\* 'director', in every state; and while director mode is active neither the
\* P key nor a frame in which only the interact key is down changes the mode
\* or a vehicle's occupancy.
C37_DirectorAgreesWithMode ==
  /\ [](dir.active <=> mode = "director")
  /\ [][(dir.active /\ loadStage' = loadStage
           /\ (frames' = frames \/ keys' = {"KeyF"})) =>
          /\ mode' = mode
          /\ \A v \in Vehicles : vehicles'[v].occupied = vehicles[v].occupied]_vars

----------------------------------------------------------------------------
(* VehicleInteraction's own mode *)

\* C38: once VehicleInteraction is wired into the mode controller, its own
\* mode is 'drive' exactly when GameState.mode is 'drive' and 'play'
\* otherwise; whenever its update ran, the branch it took (proximity and
\* enter, or drive and exit) is the one of the GameState.mode it was
\* called in.
C38_InteractionModeAgrees ==
  vi.wired =>
    /\ vi.mode = (IF mode = "drive" THEN "drive" ELSE "play")
    /\ probe.ran =>
         /\ probe.modeBefore \in {"play", "drive"}
         /\ probe.branch = probe.modeBefore

\* the drive branch ran in drive mode, in a frame in which the mode did not
\* change
C38_Witness ==
  /\ vi.wired /\ mode = "drive" /\ vi.mode = "drive"
  /\ probe.ran /\ probe.branch = "drive" /\ probe.modeBefore = "drive"
  /\ gsVehicle # NoVehicle /\ gsVehicle \in probe.drove

----------------------------------------------------------------------------
(* The order of the notifications of enter and exit *)

\* C39: an enter (the interact edge in the play branch with a vehicle in
\* reach) publishes exactly one vehicle:entered, and before it exactly one
\* round of gamestate:modeChanged{drive}, delivered while GameState.vehicle
\* is already the entered vehicle and that vehicle is occupied; an exit (the
\* interact edge in the drive branch with a vehicle driven) publishes
\* exactly one vehicle:exited carrying the exited vehicle, and before it
\* exactly one round of gamestate:modeChanged{play}, delivered while
\* GameState.vehicle is already null and the vehicle is free and at rest.
\* No other frame publishes vehicle:entered or vehicle:exited.
C39_NotificationOrder ==
  [][frames' # frames =>
       \A ev \in {events'}, obs \in {Observers(orbit'.wired)} :
         \A ins \in {{i \in 1..Len(ev) : ev[i].ev = "vehicle:entered"}},
            outs \in {{i \in 1..Len(ev) : ev[i].ev = "vehicle:exited"}} :
           /\ Cardinality(ins) =
                (IF probe'.ran /\ probe'.edge /\ probe'.branch = "play"
                    /\ probe'.nearest # NoVehicle THEN 1 ELSE 0)
           /\ Cardinality(outs) =
                (IF probe'.ran /\ probe'.edge /\ probe'.branch = "drive"
                    /\ probe'.gsVehicleBefore # NoVehicle THEN 1 ELSE 0)
           /\ \A i \in ins :
                /\ ev[i].veh = probe'.nearest
                /\ \A k \in 1..Len(obs) :
                     Cardinality({j \in 1..Len(ev) :
                                   /\ ev[j].ev = "gamestate:modeChanged"
                                   /\ ev[j].mode = "drive"
                                   /\ ev[j].obs = obs[k]}) = 1
                /\ \A j \in 1..Len(ev) :
                     (ev[j].ev = "gamestate:modeChanged" /\ ev[j].mode = "drive") =>
                       /\ j < i
                       /\ ev[j].gsVehicle = ev[i].veh
                       /\ ev[i].veh \in ev[j].occupied
           /\ \A i \in outs :
                /\ ev[i].veh = probe'.gsVehicleBefore
                /\ \A k \in 1..Len(obs) :
                     Cardinality({j \in 1..Len(ev) :
                                   /\ ev[j].ev = "gamestate:modeChanged"
                                   /\ ev[j].mode = "play"
                                   /\ ev[j].obs = obs[k]}) = 1
                /\ \A j \in 1..Len(ev) :
                     (ev[j].ev = "gamestate:modeChanged" /\ ev[j].mode = "play") =>
                       /\ j < i
                       /\ ev[j].gsVehicle = NoVehicle
                       /\ ev[i].veh \notin ev[j].occupied
                       /\ ev[i].veh \notin ev[j].moving]_vars

\* the driver left a vehicle: the mode change to play was delivered with
\* GameState.vehicle null and vehicle:exited followed it
C39_Witness ==
  /\ mode = "play" /\ gsVehicle = NoVehicle
  /\ probe.ran /\ probe.edge /\ probe.branch = "drive"
  /\ probe.gsVehicleBefore # NoVehicle
  /\ \E i, j \in 1..Len(events) :
       /\ j < i
       /\ events[i].ev = "vehicle:exited" /\ events[i].veh = probe.gsVehicleBefore
       /\ events[j].ev = "gamestate:modeChanged" /\ events[j].mode = "play"
       /\ events[j].gsVehicle = NoVehicle

====
